---- MODULE Spec2Model ----
(***************************************************************************)
(* Verification model of the lapp ingest pipeline (STRRL/lapp):            *)
(*   pkg/ingestor   the file reader goroutine (fileIngestor.Ingest)        *)
(*   pkg/multiline  the multiline merger (Merge, MergeSlice, Detector)     *)
(*   cmd/lapp       the two-round orchestrator (collectLines,              *)
(*                  discoverAndSavePatterns, storeLogsWithLabels)          *)
(*   pkg/store      the DuckDB store operations the orchestrator uses      *)
(*                                                                         *)
(* Three specifications share the variables:                               *)
(*   SpecMerge   Merge over a pre-filled, closed input channel, drained by *)
(*               collectLines, for every detector configuration;           *)
(*   SpecRead    the reader goroutine feeding Merge under cancellation     *)
(*               and read errors;                                          *)
(*   SpecIngest  the orchestrator from the collected entries to the store. *)
(***************************************************************************)
EXTENDS Integers, Sequences, FiniteSets, TLC

(***************************************************************************)
(* Bounds of the model.                                                    *)
(***************************************************************************)
\* longest input file, in physical lines
MaxLines == 3
\* largest max_entry_bytes a detector is configured with
MaxBytes == 3
\* capacity of the two channels; make(chan ..., 100) in the source, scaled
\* down so that a full channel (a blocked send) is reachable
ChanCap == 2

(***************************************************************************)
(* Physical lines are byte sequences; "\n" never occurs inside a line      *)
(* because bufio.Scanner strips the terminator.                            *)
(***************************************************************************)
Lines == { <<>>, <<"a">>, <<"b", "c">> }

NL == "\n"

\* an empty Go map / an empty table keyed by its primary key
EmptyMap == [k \in {} |-> ""]

NoErr == "nil"

\* no InsertLogBatch call under way
NoTx == [pc |-> "none", entries |-> <<>>, rows |-> <<>>, executed |-> 0, before |-> <<>>, err |-> NoErr]

RECURSIVE SeqsUpTo(_, _)
SeqsUpTo(S, n) ==
  IF n = 0 THEN { <<>> }
  ELSE LET shorter == SeqsUpTo(S, n - 1)
       IN  shorter \cup { Append(s, x) : s \in { t \in shorter : Len(t) = n - 1 }, x \in S }

\* strings.Join(buf, "\n")
RECURSIVE Join(_)
Join(b) ==
  IF Len(b) = 0 THEN <<>>
  ELSE IF Len(b) = 1 THEN b[1]
  ELSE b[1] \o <<NL>> \o Join(Tail(b))

VARIABLES
  file,          \* the lines the scanner yields before it stops
  scanFails,     \* scanner.Err() is non-nil after those lines
  closeFails,    \* file.Close() returns an error
  detector,      \* the *Detector handed to Merge / MergeSlice
  ctxDone,       \* the context has been cancelled
  rPc,           \* reader goroutine: position
  lineNum,       \* reader goroutine: lineNum
  fileErr,       \* reader goroutine: fileErr
  ch,            \* channel reader -> merger (contents)
  chClosed,      \* close(ch) has run
  chLog,         \* history: every result sent on ch, with ctxDone at that time
  mPc,           \* merger goroutine: position
  rr,            \* merger goroutine: the result being processed
  isNew,         \* merger goroutine: isNew of the current line
  buf,           \* merger goroutine: buf
  startLine,     \* merger goroutine: startLine
  endLine,       \* merger goroutine: endLine
  bufBytes,      \* merger goroutine: bufBytes
  everDetected,  \* merger goroutine: everDetected
  out,           \* channel merger -> collectLines (contents)
  outClosed,     \* close(out) has run
  outLog,        \* history: every MergeResult sent on out
  cPc,           \* collectLines: position
  lines,         \* collectLines: lines
  collectErr,    \* collectLines: the returned error
  sliceCalled,   \* a non-streaming caller has called MergeSlice(file, detector)
  sliced,        \* the slice MergeSlice returned to it
  callArgs,      \* a caller of one exported function: the arguments it passes
  callRet,       \* that caller: << the value returned >>, << >> before the call
  drainFields,   \* the Drain library splits on any whitespace (else on " " only)
  oPc,           \* runIngest after collectLines: position
  clusters,      \* DrainParser: the clusters of p.drain, in creation order
  clusterUUIDs,  \* DrainParser: clusterUUIDs
  templates,     \* runIngest: the result of Templates()
  labels,        \* discoverAndSavePatterns: the labels the labeler returned
  semanticIDMap, \* runIngest: semanticIDMap
  idx,           \* storeLogsWithLabels: number of mergedLines iterated
  batch,         \* storeLogsWithLabels: batch
  runErr,        \* runIngest: the returned error
  dbPatterns,    \* store: the committed rows of table patterns, by pattern_id
  dbLogs,        \* store: the committed rows of table log_entries, in insertion order
  tx,            \* store: the open transaction of InsertLogBatch and its call
  labelCalls,    \* history: the inputs of every call of semantic.Label, in order
  batchCalls,    \* history: len(entries) of every call of InsertLogBatch, in order
  patternCalls,  \* history: the patterns of every committed InsertPatterns, in order
  summaries,     \* the result of the latest PatternSummaries call
  linesFed       \* history: number of lines handed to Drain by Feed

readerVars == << rPc, lineNum, fileErr, ch, chClosed, chLog >>
mergerVars == << mPc, rr, isNew, buf, startLine, endLine, bufBytes, everDetected,
                 out, outClosed, outLog >>
collectVars == << cPc, lines, collectErr >>
inputVars == << file, scanFails, closeFails, detector >>
callVars == << callArgs, callRet >>
sliceVars == << sliceCalled, sliced, callVars >>
drainVars == << drainFields, clusters, clusterUUIDs >>
storeVars == << dbPatterns, dbLogs, tx >>
runVars == << oPc, templates, labels, semanticIDMap, idx, batch, runErr >>
historyVars == << labelCalls, batchCalls, patternCalls, summaries, linesFed >>
ingestVars == << drainVars, runVars, storeVars, historyVars >>
vars == << inputVars, sliceVars, ctxDone, readerVars, mergerVars, collectVars, ingestVars >>

(***************************************************************************)
(* pkg/multiline/detector.go                                               *)
(***************************************************************************)
\* DetectorConfig.defaults: MaxEntryBytes
DefaultMaxEntryBytes == 65536

\* A detector: hasRegex says whether firstLineRegex is set, regex is the set
\* of lines the compiled regex matches; timestamped is the set of lines whose
\* scanned prefix gets a matchProbability above the threshold.
Detectors ==
  { [hasRegex |-> h, regex |-> re, timestamped |-> ts, maxEntryBytes |-> mb] :
      h \in BOOLEAN,
      re \in SUBSET Lines,
      ts \in SUBSET (Lines \ { <<>> }),
      mb \in (1..MaxBytes) \cup { DefaultMaxEntryBytes } }

IsNewEntry(d, line) ==
  IF d.hasRegex
  THEN line \in d.regex
  ELSE IF Len(line) = 0 THEN FALSE
       ELSE line \in d.timestamped

MaxEntryBytes(d) == d.maxEntryBytes

(***************************************************************************)
(* pkg/multiline/merger.go: MergeSlice                                     *)
(***************************************************************************)
\* an entry whose lines are put together without a separator
RECURSIVE Concat(_)
Concat(b) == IF b = <<>> THEN <<>> ELSE Head(b) \o Concat(Tail(b))

MergedLineUnseparated(s, e, b) == [StartLine |-> s, EndLine |-> e, Content |-> Concat(b)]

MergedLine(s, e, b) == [StartLine |-> s, EndLine |-> e, Content |-> Join(b)]

\* mutant of sliceFlush: the entry is appended but buf is not reset
sliceFlushKeepsBuf(s) ==
  IF Len(s.buf) = 0 THEN s
  ELSE [s EXCEPT !.result = Append(@, MergedLine(s.startLine, s.endLine, s.buf))]

\* the flush closure of MergeSlice
sliceFlush(s) ==
  IF Len(s.buf) = 0 THEN s
  ELSE [s EXCEPT !.result = Append(@, MergedLine(s.startLine, s.endLine, s.buf)),
                 !.buf = <<>>,
                 !.bufBytes = 0]

\* mutant of sliceStep: newSize does not count the joining newline
sliceStepNoSeparator(s, i, line, d) ==
  LET new  == IsNewEntry(d, line)
      s0   == [s EXCEPT !.everDetected = @ \/ new]
      s1   == IF ~s0.everDetected /\ Len(s0.buf) > 0 THEN sliceFlush(s0) ELSE s0
      s2   == IF new /\ Len(s1.buf) > 0 THEN sliceFlush(s1) ELSE s1
      newSize == s2.bufBytes + Len(line)
      s3   == IF newSize > MaxEntryBytes(d) /\ Len(s2.buf) > 0 THEN sliceFlush(s2) ELSE s2
  IN  [s3 EXCEPT !.startLine = IF Len(s3.buf) = 0 THEN i ELSE @,
                 !.bufBytes  = IF Len(s3.buf) = 0 THEN Len(line) ELSE newSize,
                 !.endLine   = i,
                 !.buf       = Append(@, line)]

\* one iteration of the loop of MergeSlice, for lines[i] = line
sliceStep(s, i, line, d) ==
  LET new  == IsNewEntry(d, line)
      s0   == [s EXCEPT !.everDetected = @ \/ new]
      s1   == IF ~s0.everDetected /\ Len(s0.buf) > 0 THEN sliceFlush(s0) ELSE s0
      s2   == IF new /\ Len(s1.buf) > 0 THEN sliceFlush(s1) ELSE s1
      newSize == s2.bufBytes + Len(line) + (IF Len(s2.buf) > 0 THEN 1 ELSE 0)
      s3   == IF newSize > MaxEntryBytes(d) /\ Len(s2.buf) > 0 THEN sliceFlush(s2) ELSE s2
  IN  [s3 EXCEPT !.startLine = IF Len(s3.buf) = 0 THEN i ELSE @,
                 !.bufBytes  = IF Len(s3.buf) = 0 THEN Len(line) ELSE newSize,
                 !.endLine   = i,
                 !.buf       = Append(@, line)]

RECURSIVE sliceLoop(_, _, _, _)
sliceLoop(s, i, ls, d) ==
  IF i > Len(ls) THEN s
  ELSE sliceLoop(sliceStep(s, i, ls[i], d), i + 1, ls, d)

MergeSlice(ls, d) ==
  IF Len(ls) = 0 THEN <<>>
  ELSE sliceFlush(sliceLoop([result |-> <<>>, buf |-> <<>>, startLine |-> 0,
                             endLine |-> 0, bufBytes |-> 0, everDetected |-> FALSE],
                            1, ls, d)).result

\* a non-streaming caller (analyze, debug): merged := MergeSlice(lines, detector)
callMergeSlice ==
  /\ ~sliceCalled
  /\ sliceCalled' = TRUE
  /\ sliced' = MergeSlice(file, detector)
  /\ UNCHANGED << callVars, ingestVars, inputVars, ctxDone, readerVars, mergerVars, collectVars >>

(***************************************************************************)
(* Results carried by the channels                                         *)
(***************************************************************************)
NoValue == [LineNumber |-> 0, Content |-> <<>>]
LineResult(n, c) == [Err |-> NoErr, Value |-> [LineNumber |-> n, Content |-> c]]
ErrResult(e) == [Err |-> e, Value |-> NoValue]

NoEntry == [StartLine |-> 0, EndLine |-> 0, Content |-> <<>>]
EntryResult(m) == [Err |-> NoErr, Value |-> m]
MergeErr(e) == [Err |-> e, Value |-> NoEntry]

(***************************************************************************)
(* pkg/ingestor/ingestor.go: the goroutine of fileIngestor.Ingest          *)
(***************************************************************************)
\* errors.Join(fileErr, close error)
JoinErr(e, cerr) ==
  IF e = NoErr THEN cerr
  ELSE IF cerr = NoErr THEN e
  ELSE "read+close"

\* mutant of deferredErr: the result of file.Close() overwrites fileErr
deferredErrOverwritten(e) == IF closeFails THEN "close" ELSE NoErr

\* the deferred function up to its select: file.Close() and the join
deferredErr(e) == JoinErr(e, IF closeFails THEN "close" ELSE NoErr)

\* the return of the reader without the deferred close(ch)
readerReturnNoClose(e) ==
  /\ fileErr' = deferredErr(e)
  /\ IF deferredErr(e) # NoErr
     THEN rPc' = "sendErr" /\ UNCHANGED chClosed
     ELSE rPc' = "done" /\ UNCHANGED chClosed

\* a step that leaves the loop: the deferred function runs; it either has an
\* error to send (and blocks in its select) or lets close(ch) run
readerReturn(e) ==
  /\ fileErr' = deferredErr(e)
  /\ IF deferredErr(e) # NoErr
     THEN rPc' = "sendErr" /\ UNCHANGED chClosed
     ELSE rPc' = "done" /\ chClosed' = TRUE

\* scanner.Scan(): the next line, or the end of the loop with scanner.Err()
ReaderScan ==
  /\ rPc = "scan"
  /\ IF lineNum < Len(file)
     THEN /\ lineNum' = lineNum + 1
          /\ rPc' = "select"
          /\ UNCHANGED << fileErr, chClosed >>
     ELSE /\ readerReturn(IF scanFails THEN "read" ELSE NoErr)
          /\ UNCHANGED lineNum
  /\ UNCHANGED << ch, chLog >>
  /\ UNCHANGED << ingestVars, inputVars, sliceVars, ctxDone, mergerVars, collectVars >>

\* select: case ch <- Result{Value: &LogLine{lineNum, scanner.Text()}}
ReaderSend ==
  /\ rPc = "select"
  /\ Len(ch) < ChanCap
  /\ ch' = Append(ch, LineResult(lineNum, file[lineNum]))
  /\ chLog' = Append(chLog, [res |-> LineResult(lineNum, file[lineNum]), cancelled |-> ctxDone])
  /\ rPc' = "scan"
  /\ UNCHANGED << lineNum, fileErr, chClosed >>
  /\ UNCHANGED << ingestVars, inputVars, sliceVars, ctxDone, mergerVars, collectVars >>

\* a select without the ctx.Done() case
ReaderCancelledNever ==
  /\ rPc = "select"
  /\ FALSE
  /\ UNCHANGED vars

\* select: case <-ctx.Done(): return
ReaderCancelled ==
  /\ rPc = "select"
  /\ ctxDone
  /\ readerReturn(fileErr)
  /\ UNCHANGED << lineNum, ch, chLog >>
  /\ UNCHANGED << ingestVars, inputVars, sliceVars, ctxDone, mergerVars, collectVars >>

\* deferred select: case ch <- Result{Err: fileErr}, then close(ch)
ReaderSendErr ==
  /\ rPc = "sendErr"
  /\ Len(ch) < ChanCap
  /\ ch' = Append(ch, ErrResult(fileErr))
  /\ chLog' = Append(chLog, [res |-> ErrResult(fileErr), cancelled |-> ctxDone])
  /\ chClosed' = TRUE
  /\ rPc' = "done"
  /\ UNCHANGED << lineNum, fileErr >>
  /\ UNCHANGED << ingestVars, inputVars, sliceVars, ctxDone, mergerVars, collectVars >>

\* deferred select: case <-ctx.Done(), then close(ch)
ReaderDropErr ==
  /\ rPc = "sendErr"
  /\ ctxDone
  /\ chClosed' = TRUE
  /\ rPc' = "done"
  /\ UNCHANGED << lineNum, fileErr, ch, chLog >>
  /\ UNCHANGED << ingestVars, inputVars, sliceVars, ctxDone, mergerVars, collectVars >>

Ingest == ReaderScan \/ ReaderSend \/ ReaderCancelled \/ ReaderSendErr \/ ReaderDropErr

\* the context of runIngest is cancelled (by its parent, at any time)
Cancel ==
  /\ ~ctxDone
  /\ ctxDone' = TRUE
  /\ UNCHANGED << ingestVars, inputVars, sliceVars, readerVars, mergerVars, collectVars >>

(***************************************************************************)
(* pkg/multiline/merger.go: the goroutine of Merge                         *)
(***************************************************************************)
\* the flush closure of Merge, when buf is not empty: a send on out
flush ==
  /\ Len(buf) > 0
  /\ Len(out) < ChanCap
  /\ out' = Append(out, EntryResult(MergedLine(startLine, endLine, buf)))
  /\ outLog' = Append(outLog, EntryResult(MergedLine(startLine, endLine, buf)))
  /\ buf' = <<>>
  /\ bufBytes' = 0

\* flush() where cond guards the call; without the call nothing changes
flushIf(cond) ==
  IF cond /\ Len(buf) > 0
  THEN flush
  ELSE UNCHANGED << out, outLog, buf, bufBytes >>

\* for rr := range in: receive one result, evaluate the detector
MergeRecv ==
  /\ mPc = "range"
  /\ Len(ch) > 0
  /\ rr' = Head(ch)
  /\ ch' = Tail(ch)
  /\ IF Head(ch).Err # NoErr
     THEN /\ mPc' = "sendErr"
          /\ UNCHANGED << isNew, everDetected >>
     ELSE /\ isNew' = IsNewEntry(detector, Head(ch).Value.Content)
          /\ everDetected' = (everDetected \/ IsNewEntry(detector, Head(ch).Value.Content))
          /\ mPc' = "fallback"
  /\ UNCHANGED << buf, startLine, endLine, bufBytes, out, outClosed, outLog >>
  /\ UNCHANGED << ingestVars, inputVars, sliceVars, ctxDone, rPc, lineNum, fileErr, chClosed, chLog, collectVars >>

\* mutant of MergeSendErr: returns on the error without sending it
MergeSendErrSilent ==
  /\ mPc = "sendErr"
  /\ outClosed' = TRUE
  /\ mPc' = "done"
  /\ UNCHANGED << out, outLog, rr, isNew, buf, startLine, endLine, bufBytes, everDetected >>
  /\ UNCHANGED << ingestVars, inputVars, sliceVars, ctxDone, readerVars, collectVars >>

\* out <- MergeResult{Err: rr.Err}; return (the deferred close(out) runs)
MergeSendErr ==
  /\ mPc = "sendErr"
  /\ Len(out) < ChanCap
  /\ out' = Append(out, MergeErr(rr.Err))
  /\ outLog' = Append(outLog, MergeErr(rr.Err))
  /\ outClosed' = TRUE
  /\ mPc' = "done"
  /\ UNCHANGED << rr, isNew, buf, startLine, endLine, bufBytes, everDetected >>
  /\ UNCHANGED << ingestVars, inputVars, sliceVars, ctxDone, readerVars, collectVars >>

\* mutant of MergeFallback: no flush while no entry start was ever seen
MergeFallbackNever ==
  /\ mPc = "fallback"
  /\ mPc' = "newEntry"
  /\ UNCHANGED << out, outLog, buf, bufBytes >>
  /\ UNCHANGED << rr, isNew, startLine, endLine, everDetected, outClosed >>
  /\ UNCHANGED << ingestVars, inputVars, sliceVars, ctxDone, readerVars, collectVars >>

\* if !everDetected && len(buf) > 0 { flush() }
MergeFallback ==
  /\ mPc = "fallback"
  /\ flushIf(~everDetected)
  /\ mPc' = "newEntry"
  /\ UNCHANGED << rr, isNew, startLine, endLine, everDetected, outClosed >>
  /\ UNCHANGED << ingestVars, inputVars, sliceVars, ctxDone, readerVars, collectVars >>

\* if isNew && len(buf) > 0 { flush() }
MergeNewEntry ==
  /\ mPc = "newEntry"
  /\ flushIf(isNew)
  /\ mPc' = "overflow"
  /\ UNCHANGED << rr, isNew, startLine, endLine, everDetected, outClosed >>
  /\ UNCHANGED << ingestVars, inputVars, sliceVars, ctxDone, readerVars, collectVars >>

\* mutant of MergeAppend: endLine is updated before the overflow flush
MergeAppendEndLineFirst ==
  /\ mPc = "overflow"
  /\ LET line    == rr.Value
         newSize == bufBytes + Len(line.Content) + (IF Len(buf) > 0 THEN 1 ELSE 0)
         over    == newSize > MaxEntryBytes(detector) /\ Len(buf) > 0
     IN  /\ IF over
            THEN /\ Len(out) < ChanCap
                 /\ out' = Append(out, EntryResult(MergedLine(startLine, line.LineNumber, buf)))
                 /\ outLog' = Append(outLog, EntryResult(MergedLine(startLine, line.LineNumber, buf)))
            ELSE UNCHANGED << out, outLog >>
         /\ startLine' = IF over \/ Len(buf) = 0 THEN line.LineNumber ELSE startLine
         /\ bufBytes' = IF over \/ Len(buf) = 0 THEN Len(line.Content) ELSE newSize
         /\ endLine' = line.LineNumber
         /\ buf' = IF over THEN << line.Content >> ELSE Append(buf, line.Content)
  /\ mPc' = "range"
  /\ UNCHANGED << rr, isNew, everDetected, outClosed >>
  /\ UNCHANGED << ingestVars, inputVars, sliceVars, ctxDone, readerVars, collectVars >>

\* the overflow check, then the append of the line to buf
MergeAppend ==
  /\ mPc = "overflow"
  /\ LET line    == rr.Value
         newSize == bufBytes + Len(line.Content) + (IF Len(buf) > 0 THEN 1 ELSE 0)
         over    == newSize > MaxEntryBytes(detector) /\ Len(buf) > 0
     IN  /\ IF over
            THEN /\ Len(out) < ChanCap
                 /\ out' = Append(out, EntryResult(MergedLine(startLine, endLine, buf)))
                 /\ outLog' = Append(outLog, EntryResult(MergedLine(startLine, endLine, buf)))
            ELSE UNCHANGED << out, outLog >>
         /\ startLine' = IF over \/ Len(buf) = 0 THEN line.LineNumber ELSE startLine
         /\ bufBytes' = IF over \/ Len(buf) = 0 THEN Len(line.Content) ELSE newSize
         /\ endLine' = line.LineNumber
         /\ buf' = IF over THEN << line.Content >> ELSE Append(buf, line.Content)
  /\ mPc' = "range"
  /\ UNCHANGED << rr, isNew, everDetected, outClosed >>
  /\ UNCHANGED << ingestVars, inputVars, sliceVars, ctxDone, readerVars, collectVars >>

\* mutant of MergeFinish: the remainder is not flushed at the end of the input
MergeFinishNoFlush ==
  /\ mPc = "range"
  /\ Len(ch) = 0
  /\ chClosed
  /\ outClosed' = TRUE
  /\ mPc' = "done"
  /\ UNCHANGED << out, outLog, buf, bufBytes >>
  /\ UNCHANGED << rr, isNew, startLine, endLine, everDetected >>
  /\ UNCHANGED << ingestVars, inputVars, sliceVars, ctxDone, readerVars, collectVars >>

\* the range loop ends on the closed, drained channel: flush(), close(out)
MergeFinish ==
  /\ mPc = "range"
  /\ Len(ch) = 0
  /\ chClosed
  /\ flushIf(TRUE)
  /\ outClosed' = TRUE
  /\ mPc' = "done"
  /\ UNCHANGED << rr, isNew, startLine, endLine, everDetected >>
  /\ UNCHANGED << ingestVars, inputVars, sliceVars, ctxDone, readerVars, collectVars >>

Merge == MergeRecv \/ MergeSendErr \/ MergeFallback \/ MergeNewEntry \/ MergeAppend \/ MergeFinish

(***************************************************************************)
(* cmd/lapp/pipeline.go: collectLines                                      *)
(***************************************************************************)
\* one iteration of for rr := range merged
collectRecv ==
  /\ cPc = "range"
  /\ Len(out) > 0
  /\ out' = Tail(out)
  /\ IF Head(out).Err # NoErr
     THEN /\ lines' = <<>>
          /\ collectErr' = Head(out).Err
          /\ cPc' = "returned"
     ELSE /\ lines' = Append(lines, Head(out).Value)
          /\ UNCHANGED << collectErr, cPc >>
  /\ UNCHANGED << mPc, rr, isNew, buf, startLine, endLine, bufBytes, everDetected,
                  outClosed, outLog >>
  /\ UNCHANGED << ingestVars, inputVars, sliceVars, ctxDone, readerVars >>

\* the range loop ends on the closed, drained channel: return lines, nil
collectReturn ==
  /\ cPc = "range"
  /\ Len(out) = 0
  /\ outClosed
  /\ cPc' = "returned"
  /\ UNCHANGED << lines, collectErr >>
  /\ UNCHANGED << ingestVars, inputVars, sliceVars, ctxDone, readerVars, mergerVars >>

collectLines == collectRecv \/ collectReturn

(***************************************************************************)
(* SpecMerge: Merge reads a channel that was filled and closed before it   *)
(* started (as the tests of the package do), for every detector.           *)
(***************************************************************************)
RECURSIVE Numbered(_, _)
Numbered(ls, from) ==
  IF ls = <<>> THEN <<>>
  ELSE << LineResult(from, Head(ls)) >> \o Numbered(Tail(ls), from + 1)

MergerInit ==
  /\ mPc = "range"
  /\ rr = ErrResult(NoErr)
  /\ isNew = FALSE
  /\ buf = <<>>
  /\ startLine = 0
  /\ endLine = 0
  /\ bufBytes = 0
  /\ everDetected = FALSE
  /\ out = <<>>
  /\ outClosed = FALSE
  /\ outLog = <<>>

CollectInit ==
  /\ cPc = "range"
  /\ lines = <<>>
  /\ collectErr = NoErr

SliceInit ==
  /\ sliceCalled = FALSE
  /\ sliced = <<>>

\* no exported function is being called on its own
CallIdle ==
  /\ callArgs = <<>>
  /\ callRet = <<>>

\* runIngest has not got past collectLines, the store is freshly initialised
IngestIdle ==
  /\ drainFields = FALSE
  /\ oPc = "collect"
  /\ clusters = <<>>
  /\ clusterUUIDs = EmptyMap
  /\ templates = <<>>
  /\ labels = <<>>
  /\ semanticIDMap = EmptyMap
  /\ idx = 0
  /\ batch = <<>>
  /\ runErr = NoErr
  /\ dbPatterns = EmptyMap
  /\ dbLogs = <<>>
  /\ tx = NoTx
  /\ labelCalls = <<>>
  /\ batchCalls = <<>>
  /\ patternCalls = <<>>
  /\ summaries = <<>>
  /\ linesFed = 0

InitMerge ==
  /\ file \in SeqsUpTo(Lines, MaxLines)
  /\ scanFails \in BOOLEAN
  /\ closeFails = FALSE
  /\ detector \in Detectors
  /\ detector.hasRegex => detector.timestamped = {}
  /\ ~detector.hasRegex => detector.regex = {}
  /\ ctxDone = FALSE
  /\ rPc = "done"
  /\ lineNum = Len(file)
  /\ fileErr = IF scanFails THEN "read" ELSE NoErr
  /\ ch = Numbered(file, 1) \o (IF scanFails THEN << ErrResult("read") >> ELSE <<>>)
  /\ chClosed = TRUE
  /\ chLog = <<>>
  /\ MergerInit
  /\ CollectInit
  /\ SliceInit
  /\ CallIdle
  /\ IngestIdle

NextMerge == Merge \/ collectLines \/ callMergeSlice

SpecMerge == InitMerge /\ [][NextMerge]_vars

(***************************************************************************)
(* SpecRead: the front of runIngest: the reader goroutine, Merge with the  *)
(* detector of DetectorConfig{} and collectLines, with cancellation.       *)
(***************************************************************************)
InitRead ==
  /\ file \in SeqsUpTo(Lines, MaxLines)
  /\ scanFails \in BOOLEAN
  /\ closeFails \in BOOLEAN
  /\ detector \in Detectors
  /\ ~detector.hasRegex
  /\ detector.regex = {}
  /\ detector.maxEntryBytes = DefaultMaxEntryBytes
  /\ ctxDone = FALSE
  /\ rPc = "scan"
  /\ lineNum = 0
  /\ fileErr = NoErr
  /\ ch = <<>>
  /\ chClosed = FALSE
  /\ chLog = <<>>
  /\ MergerInit
  /\ CollectInit
  /\ SliceInit
  /\ CallIdle
  /\ IngestIdle

NextRead == Ingest \/ Cancel \/ Merge \/ collectLines

SpecRead == InitRead /\ [][NextRead]_vars

(***************************************************************************)
(* pkg/pattern/parser.go: tokenize, matchTokens, MatchTemplate             *)
(***************************************************************************)
WILDCARD == << "<", "*", ">" >>

extraDelimiters == { "|", "=", "," }

\* the white space of strings.TrimSpace and strings.Fields that occurs here
Whitespace == { " ", NL }

\* strings.ReplaceAll(s, d, " ") for every d of extraDelimiters
replaceDelimiters(s) == [i \in 1..Len(s) |-> IF s[i] \in extraDelimiters THEN " " ELSE s[i]]

RECURSIVE TrimLeft(_)
TrimLeft(s) == IF s # <<>> /\ Head(s) \in Whitespace THEN TrimLeft(Tail(s)) ELSE s

RECURSIVE TrimRight(_)
TrimRight(s) ==
  IF s # <<>> /\ s[Len(s)] \in Whitespace THEN TrimRight(SubSeq(s, 1, Len(s) - 1)) ELSE s

\* strings.TrimSpace
TrimSpace(s) == TrimRight(TrimLeft(s))

\* strings.Split(s, " "): empty strings between adjacent separators are kept
RECURSIVE Split(_)
Split(s) ==
  LET spaces == { i \in 1..Len(s) : s[i] = " " }
  IN  IF spaces = {} THEN << s >>
      ELSE LET k == CHOOSE i \in spaces : \A j \in spaces : i <= j
           IN  << SubSeq(s, 1, k - 1) >> \o Split(SubSeq(s, k + 1, Len(s)))

tokenize(s) == Split(TrimSpace(replaceDelimiters(s)))

matchTokens(lineTokens, patTokens) ==
  /\ Len(lineTokens) = Len(patTokens)
  /\ \A i \in 1..Len(patTokens) : patTokens[i] = WILDCARD \/ patTokens[i] = lineTokens[i]

\* the zero value DrainCluster{}
ZeroCluster == [ID |-> "", Pattern |-> <<>>, Count |-> 0]

\* MatchTemplate returning the last matching template
MatchTemplateLast(line, ts) ==
  LET hits == { i \in 1..Len(ts) : matchTokens(tokenize(line), tokenize(ts[i].Pattern)) }
  IN  IF hits = {} THEN [t |-> ZeroCluster, ok |-> FALSE]
      ELSE [t |-> ts[CHOOSE i \in hits : \A j \in hits : i >= j], ok |-> TRUE]

\* MatchTemplate returns (t, ok)
MatchTemplate(line, ts) ==
  LET hits == { i \in 1..Len(ts) : matchTokens(tokenize(line), tokenize(ts[i].Pattern)) }
  IN  IF hits = {} THEN [t |-> ZeroCluster, ok |-> FALSE]
      ELSE [t |-> ts[CHOOSE i \in hits : \A j \in hits : i <= j], ok |-> TRUE]

(***************************************************************************)
(* The Drain clusterer behind DrainParser (library go-drain3), as section  *)
(* 4.4 of the specification describes it: depth 4, sim_th 0.4.             *)
(***************************************************************************)
DrainDepth == 4

\* sim_th = 0.4 as the fraction SimThNum / SimThDen
SimThNum == 4
SimThDen == 10

Digits == { "0", "1", "2", "3", "4", "5", "6", "7", "8", "9" }

\* strings.Fields: split on runs of white space, no empty token
RECURSIVE Fields(_)
Fields(s) ==
  LET t == TrimLeft(s)
      ws == { i \in 1..Len(t) : t[i] \in Whitespace }
  IN  IF t = <<>> THEN <<>>
      ELSE IF ws = {} THEN << t >>
      ELSE LET k == CHOOSE i \in ws : \A j \in ws : i <= j
           IN  << SubSeq(t, 1, k - 1) >> \o Fields(SubSeq(t, k + 1, Len(t)))

\* the tokens Drain works on; whether the library splits on every white
\* space or on " " only is not visible in this repository
drainTokens(content, fields) ==
  IF fields THEN Fields(replaceDelimiters(content))
  ELSE Split(replaceDelimiters(TrimSpace(content)))

hasNumbers(tok) == \E i \in 1..Len(tok) : tok[i] \in Digits

\* the leaf of the prefix tree a token sequence descends to
leafOf(toks) ==
  [len |-> Len(toks),
   path |-> [i \in 1..(IF Len(toks) < DrainDepth - 2 THEN Len(toks) ELSE DrainDepth - 2) |->
               IF hasNumbers(toks[i]) THEN WILDCARD ELSE toks[i]]]

\* number of positions where the pattern token equals the line token or is <*>
simCount(pat, toks) ==
  Cardinality({ i \in 1..Len(toks) : pat[i] = toks[i] \/ pat[i] = WILDCARD })

\* drain.AddLogMessage: the clusters afterwards and the id of the cluster the
\* line went to
AddLogMessage(cs, content, fields) ==
  LET toks  == drainTokens(content, fields)
      cands == { i \in 1..Len(cs) : cs[i].leaf = leafOf(toks) }
      best  == CHOOSE i \in cands :
                 \A j \in cands :
                   \/ simCount(cs[i].tokens, toks) > simCount(cs[j].tokens, toks)
                   \/ (simCount(cs[i].tokens, toks) = simCount(cs[j].tokens, toks) /\ i <= j)
  IN  IF cands # {} /\ simCount(cs[best].tokens, toks) * SimThDen >= SimThNum * Len(toks)
      THEN [cs |-> [cs EXCEPT ![best] =
                      [@ EXCEPT !.tokens = [i \in 1..Len(toks) |->
                                              IF @[i] = toks[i] THEN toks[i] ELSE WILDCARD],
                                !.Size = @ + 1]],
            id |-> cs[best].ClusterId]
      ELSE [cs |-> Append(cs, [ClusterId |-> Len(cs) + 1, leaf |-> leafOf(toks),
                               tokens |-> toks, Size |-> 1]),
            id |-> Len(cs) + 1]

\* LogCluster.GetTemplate: the tokens joined by " "
RECURSIVE GetTemplate(_)
GetTemplate(toks) ==
  IF Len(toks) = 0 THEN <<>>
  ELSE IF Len(toks) = 1 THEN toks[1]
  ELSE toks[1] \o << " " >> \o GetTemplate(Tail(toks))

(***************************************************************************)
(* DrainParser (package pattern): Feed and Templates                       *)
(***************************************************************************)
\* uuid.New(): the n-th UUID generated by the process; all are distinct
UUIDPool == << "u1", "u2", "u3", "u4", "u5", "u6" >>

NewUUID(n) == UUIDPool[n]

\* Feed giving the cluster a new UUID every time a line lands in it
RECURSIVE FeedReassigns(_, _, _, _)
FeedReassigns(st, contents, i, fields) ==
  IF i > Len(contents) THEN st
  ELSE LET r  == AddLogMessage(st.cs, contents[i], fields)
           us == [k \in DOMAIN st.uuids \cup { r.id } |->
                    IF k = r.id THEN NewUUID(Cardinality(DOMAIN st.uuids) + 1)
                    ELSE st.uuids[k]]
       IN  FeedReassigns([cs |-> r.cs, uuids |-> us], contents, i + 1, fields)

\* Feed: the parser state [cs, uuids] after feeding contents[i..]
RECURSIVE Feed(_, _, _, _)
Feed(st, contents, i, fields) ==
  IF i > Len(contents) THEN st
  ELSE LET r  == AddLogMessage(st.cs, contents[i], fields)
           us == IF r.id \in DOMAIN st.uuids THEN st.uuids
                 ELSE [k \in DOMAIN st.uuids \cup { r.id } |->
                         IF k = r.id THEN NewUUID(Cardinality(DOMAIN st.uuids) + 1)
                         ELSE st.uuids[k]]
       IN  Feed([cs |-> r.cs, uuids |-> us], contents, i + 1, fields)

\* Templates leaving out the clusters that hold a single line
RECURSIVE TemplatesWithoutSingles(_, _)
TemplatesWithoutSingles(cs, uuids) ==
  IF cs = <<>> THEN <<>>
  ELSE (IF Head(cs).ClusterId \in DOMAIN uuids /\ Head(cs).Size > 1
        THEN << [ID |-> uuids[Head(cs).ClusterId],
                 Pattern |-> GetTemplate(Head(cs).tokens),
                 Count |-> Head(cs).Size] >>
        ELSE <<>>) \o TemplatesWithoutSingles(Tail(cs), uuids)

\* Templates: one DrainCluster per cluster that has a UUID
RECURSIVE Templates(_, _)
Templates(cs, uuids) ==
  IF cs = <<>> THEN <<>>
  ELSE (IF Head(cs).ClusterId \in DOMAIN uuids
        THEN << [ID |-> uuids[Head(cs).ClusterId],
                 Pattern |-> GetTemplate(Head(cs).tokens),
                 Count |-> Head(cs).Size] >>
        ELSE <<>>) \o Templates(Tail(cs), uuids)

(***************************************************************************)
(* pkg/store/duckdb.go: the two tables and the operations of the pipeline  *)
(***************************************************************************)
\* a nil map[string]string, and the map literal of storeLogsWithLabels
NilLabels == [nil |-> TRUE, kv |-> {}]

\* labels with the values of the two keys exchanged
PatternLabelsSwapped(sid, id) == [nil |-> FALSE, kv |-> { << "pattern", id >>, << "pattern_id", sid >> }]

PatternLabels(sid, id) == [nil |-> FALSE, kv |-> { << "pattern", sid >>, << "pattern_id", id >> }]

\* marshalLabels: the JSON object, as its set of key/value members
marshalLabels(l) == IF l.nil THEN {} ELSE l.kv

\* the row one Exec of InsertLogBatch inserts (id and timestamp left out)
LogRow(e) ==
  [line_number |-> e.LineNumber, end_line_number |-> e.EndLineNumber,
   raw |-> e.Raw, labels |-> marshalLabels(e.Labels)]

\* InsertLogBatch when its transaction commits
InsertLogBatch(db, entries) == db \o [i \in 1..Len(entries) |-> LogRow(entries[i])]

\* an insert that leaves an existing row as it is (ON CONFLICT DO NOTHING)
UpsertPatternKeepsRow(db, pt) ==
  [id \in DOMAIN db \cup { pt.PatternUUIDString } |->
     IF id \in DOMAIN db
     THEN db[id]
     ELSE [pattern_type |-> pt.PatternType, raw_pattern |-> pt.RawPattern,
           semantic_id |-> pt.SemanticID, description |-> pt.Description]]

\* one Exec of InsertPatterns: INSERT ... ON CONFLICT(pattern_id) DO UPDATE
UpsertPattern(db, pt) ==
  [id \in DOMAIN db \cup { pt.PatternUUIDString } |->
     IF id = pt.PatternUUIDString
     THEN [pattern_type |-> pt.PatternType, raw_pattern |-> pt.RawPattern,
           semantic_id |-> pt.SemanticID, description |-> pt.Description]
     ELSE db[id]]

\* InsertPatterns when its transaction commits
RECURSIVE InsertPatterns(_, _)
InsertPatterns(db, pts) ==
  IF pts = <<>> THEN db ELSE InsertPatterns(UpsertPattern(db, Head(pts)), Tail(pts))

\* json_extract_string(labels, '$.pattern_id') of a stored row
LabelValues(row, key) == { m[2] : m \in { x \in row.labels : x[1] = key } }

(***************************************************************************)
(* cmd/lapp/pipeline.go and cmd/lapp/ingest.go: runIngest after            *)
(* collectLines                                                            *)
(***************************************************************************)
\* batch size of storeLogsWithLabels: 500 in the source, scaled down so that
\* full and partial batches occur
BatchSize == 2

\* samples per template in buildLabelInputs
MaxSamples == 3

SemanticIDs == { "s1", "s2" }

\* a pattern id no template of the run has
ForeignUUID == "ux"

\* no filter: every template goes on
FilteredKeepsSingles(ts) == ts

\* templates with Count > 1
Filtered(ts) ==
  LET generalised(t) == ~(t.Count <= 1) IN SelectSeq(ts, generalised)

RECURSIVE Take(_, _)
Take(sq, n) == IF n = 0 \/ sq = <<>> THEN <<>> ELSE << Head(sq) >> \o Take(Tail(sq), n - 1)

buildLabelInputs(ts, contents) ==
  [i \in 1..Len(ts) |->
     LET matches(line) == MatchTemplate(line, << ts[i] >>).ok
     IN  [PatternUUIDString |-> ts[i].ID, Pattern |-> ts[i].Pattern,
          Samples |-> Take(SelectSeq(contents, matches), MaxSamples)]]

\* what the language model may answer to the inputs: for each input a label
\* or none, and possibly one label for a pattern id that was not an input
LabelResponses(inputs, others) ==
  LET inIds == { inputs[i].PatternUUIDString : i \in 1..Len(inputs) }
      answers == { f \in [inIds \cup others -> { "" } \cup SemanticIDs] :
                     /\ Cardinality({ x \in others : f[x] # "" }) <= 1
                     /\ \A x \in others : f[x] \in { "", "s1" } }
      resp(f) == LET labelled(id) == id \in DOMAIN f /\ f[id] # ""
                     ids == SelectSeq(UUIDPool \o << ForeignUUID >>, labelled)
                 IN  [i \in 1..Len(ids) |->
                        [PatternUUIDString |-> ids[i], SemanticID |-> f[ids[i]],
                         Description |-> "description"]]
  IN  { resp(f) : f \in answers }

\* labelMap: the labels indexed by pattern UUID, a later label overwriting
labelMapOf(ls) ==
  [id \in { ls[i].PatternUUIDString : i \in 1..Len(ls) } |->
     ls[CHOOSE i \in 1..Len(ls) :
          /\ ls[i].PatternUUIDString = id
          /\ \A j \in 1..Len(ls) : ls[j].PatternUUIDString = id => j <= i]]

\* store patterns that name as semantic id the pattern's own UUID
buildPatternsOwnID(filtered, labelMap) ==
  [i \in 1..Len(filtered) |->
     [PatternUUIDString |-> filtered[i].ID,
      PatternType |-> "drain",
      RawPattern |-> filtered[i].Pattern,
      SemanticID |-> IF filtered[i].ID \in DOMAIN labelMap
                     THEN filtered[i].ID ELSE "",
      Description |-> IF filtered[i].ID \in DOMAIN labelMap
                      THEN labelMap[filtered[i].ID].Description ELSE ""]]

\* the store patterns built from the filtered templates
buildPatterns(filtered, labelMap) ==
  [i \in 1..Len(filtered) |->
     [PatternUUIDString |-> filtered[i].ID,
      PatternType |-> "drain",
      RawPattern |-> filtered[i].Pattern,
      SemanticID |-> IF filtered[i].ID \in DOMAIN labelMap
                     THEN labelMap[filtered[i].ID].SemanticID ELSE "",
      Description |-> IF filtered[i].ID \in DOMAIN labelMap
                      THEN labelMap[filtered[i].ID].Description ELSE ""]]

\* a semanticIDMap holding every label the labeler returned
semanticIDMapOfAllLabels(filtered, labelMap) ==
  [id \in DOMAIN labelMap |-> labelMap[id].SemanticID]

\* semanticIDMap as discoverAndSavePatterns populates it
semanticIDMapOf(filtered, labelMap) ==
  [id \in { filtered[i].ID : i \in 1..Len(filtered) } \cap DOMAIN labelMap |->
     labelMap[id].SemanticID]

\* labels attached to every matched entry, the map lookup unchecked
entryLabelsWheneverMatched(content, ts, sidMap) ==
  LET m == MatchTemplate(content, ts)
  IN  IF m.ok
      THEN PatternLabels(IF m.t.ID \in DOMAIN sidMap THEN sidMap[m.t.ID] ELSE "", m.t.ID)
      ELSE NilLabels

\* the labels storeLogsWithLabels gives an entry
entryLabels(content, ts, sidMap) ==
  LET m == MatchTemplate(content, ts)
  IN  IF m.ok /\ m.t.ID \in DOMAIN sidMap
      THEN PatternLabels(sidMap[m.t.ID], m.t.ID)
      ELSE NilLabels

LogEntry(ml, ts, sidMap) ==
  [LineNumber |-> ml.StartLine, EndLineNumber |-> ml.EndLine, Raw |-> ml.Content,
   Labels |-> entryLabels(ml.Content, ts, sidMap)]

Contents == [i \in 1..Len(lines) |-> lines[i].Content]

\* runIngest, error return with the store untouched by this step
runFails(e) ==
  /\ oPc' = "failed"
  /\ runErr' = e
  /\ UNCHANGED << templates, labels, semanticIDMap, idx, batch >>
  /\ UNCHANGED << drainVars, storeVars >>

\* runIngest going on after collectLines whatever it returned
RunCollectedIgnoresErr ==
  /\ oPc = "collect"
  /\ cPc = "returned"
  /\ oPc' = "feed"
  /\ UNCHANGED << templates, labels, semanticIDMap, idx, batch, runErr >>
  /\ UNCHANGED << drainVars, storeVars >>
  /\ UNCHANGED historyVars
  /\ UNCHANGED << inputVars, sliceVars, ctxDone, readerVars, mergerVars, collectVars >>

\* mergedLines, err := collectLines(merged); if err != nil { return err }
RunCollected ==
  /\ oPc = "collect"
  /\ cPc = "returned"
  /\ IF collectErr # NoErr
     THEN runFails(collectErr)
     ELSE /\ oPc' = "feed"
          /\ UNCHANGED << templates, labels, semanticIDMap, idx, batch, runErr >>
          /\ UNCHANGED << drainVars, storeVars >>
  /\ UNCHANGED historyVars
  /\ UNCHANGED << inputVars, sliceVars, ctxDone, readerVars, mergerVars, collectVars >>

\* discoverAndSavePatterns up to the labeler call: Feed, Templates, the filter
RunFeed ==
  /\ oPc = "feed"
  /\ \/ runFails("drain feed")
     \/ LET st == Feed([cs |-> clusters, uuids |-> clusterUUIDs], Contents, 1, drainFields)
            ts == Templates(st.cs, st.uuids)
        IN  /\ clusters' = st.cs
            /\ clusterUUIDs' = st.uuids
            /\ templates' = ts
            /\ IF Len(Filtered(ts)) = 0
               THEN /\ semanticIDMap' = EmptyMap
                    /\ oPc' = "store"
               ELSE /\ oPc' = "label"
                    /\ UNCHANGED semanticIDMap
            /\ UNCHANGED << drainFields, labels, idx, batch, runErr, storeVars >>
  /\ linesFed' = IF oPc' = "failed" THEN linesFed ELSE linesFed + Len(lines)
  /\ UNCHANGED << labelCalls, batchCalls, patternCalls, summaries >>
  /\ UNCHANGED << inputVars, sliceVars, ctxDone, readerVars, mergerVars, collectVars >>

\* a labeler failure after which the entries are stored without labels
RunLabelDegrades ==
  /\ oPc = "label"
  /\ \/ /\ oPc' = "store"
        /\ runErr' = "label"
        /\ semanticIDMap' = EmptyMap
        /\ UNCHANGED << templates, labels, idx, batch, drainVars, storeVars >>
     \/ /\ ~ctxDone
        /\ \E resp \in LabelResponses(
                         buildLabelInputs(Filtered(templates), Contents),
                         { templates[i].ID : i \in { j \in 1..Len(templates) : templates[j].Count <= 1 } }
                           \cup { ForeignUUID }) :
             labels' = resp
        /\ oPc' = "insertPatterns"
        /\ UNCHANGED << templates, semanticIDMap, idx, batch, runErr, drainVars, storeVars >>
  /\ labelCalls' = Append(labelCalls, buildLabelInputs(Filtered(templates), Contents))
  /\ UNCHANGED << batchCalls, patternCalls, summaries, linesFed >>
  /\ UNCHANGED << inputVars, sliceVars, ctxDone, readerVars, mergerVars, collectVars >>

\* labels, err := semantic.Label(ctx, labelCfg, inputs)
RunLabel ==
  /\ oPc = "label"
  /\ \/ runFails("label")
     \/ /\ ~ctxDone
        /\ \E resp \in LabelResponses(
                         buildLabelInputs(Filtered(templates), Contents),
                         { templates[i].ID : i \in { j \in 1..Len(templates) : templates[j].Count <= 1 } }
                           \cup { ForeignUUID }) :
             labels' = resp
        /\ oPc' = "insertPatterns"
        /\ UNCHANGED << templates, semanticIDMap, idx, batch, runErr, drainVars, storeVars >>
  /\ labelCalls' = Append(labelCalls, buildLabelInputs(Filtered(templates), Contents))
  /\ UNCHANGED << batchCalls, patternCalls, summaries, linesFed >>
  /\ UNCHANGED << inputVars, sliceVars, ctxDone, readerVars, mergerVars, collectVars >>

\* the rest of discoverAndSavePatterns: labelMap, patterns, InsertPatterns;
\* then runIngest reads Templates() again
RunInsertPatterns ==
  /\ oPc = "insertPatterns"
  /\ \/ runFails("insert patterns")
     \/ /\ ~ctxDone
        /\ dbPatterns' = InsertPatterns(dbPatterns,
                           buildPatterns(Filtered(templates), labelMapOf(labels)))
        /\ semanticIDMap' = semanticIDMapOf(Filtered(templates), labelMapOf(labels))
        /\ templates' = Templates(clusters, clusterUUIDs)
        /\ oPc' = "store"
        /\ UNCHANGED << labels, idx, batch, runErr, drainVars, dbLogs, tx >>
  /\ patternCalls' = IF oPc' = "store"
                     THEN Append(patternCalls,
                                 buildPatterns(Filtered(templates), labelMapOf(labels)))
                     ELSE patternCalls
  /\ UNCHANGED << labelCalls, batchCalls, summaries, linesFed >>
  /\ UNCHANGED << inputVars, sliceVars, ctxDone, readerVars, mergerVars, collectVars >>

\* storeLogsWithLabels: one iteration of the loop up to the batch test
RunStoreEntry ==
  /\ oPc = "store"
  /\ idx < Len(lines)
  /\ idx' = idx + 1
  /\ batch' = Append(batch, LogEntry(lines[idx + 1], templates, semanticIDMap))
  /\ oPc' = IF Len(batch) + 1 >= BatchSize THEN "flush" ELSE "store"
  /\ UNCHANGED << templates, labels, semanticIDMap, runErr, drainVars, storeVars >>
  /\ UNCHANGED historyVars
  /\ UNCHANGED << inputVars, sliceVars, ctxDone, readerVars, mergerVars, collectVars >>

\* the flush of a full batch without batch = batch[:0]
RunFlushBatchKeepsBatch ==
  /\ oPc = "flush"
  /\ \/ runFails("insert batch")
     \/ /\ ~ctxDone
        /\ dbLogs' = InsertLogBatch(dbLogs, batch)
        /\ oPc' = "store"
        /\ UNCHANGED << templates, labels, semanticIDMap, idx, batch, runErr, drainVars, dbPatterns, tx >>
  /\ batchCalls' = Append(batchCalls, Len(batch))
  /\ UNCHANGED << labelCalls, patternCalls, summaries, linesFed >>
  /\ UNCHANGED << inputVars, sliceVars, ctxDone, readerVars, mergerVars, collectVars >>

\* storeLogsWithLabels: InsertLogBatch of a full batch, batch = batch[:0]
RunFlushBatch ==
  /\ oPc = "flush"
  /\ \/ runFails("insert batch")
     \/ /\ ~ctxDone
        /\ dbLogs' = InsertLogBatch(dbLogs, batch)
        /\ batch' = <<>>
        /\ oPc' = "store"
        /\ UNCHANGED << templates, labels, semanticIDMap, idx, runErr, drainVars, dbPatterns, tx >>
  /\ batchCalls' = Append(batchCalls, Len(batch))
  /\ UNCHANGED << labelCalls, patternCalls, summaries, linesFed >>
  /\ UNCHANGED << inputVars, sliceVars, ctxDone, readerVars, mergerVars, collectVars >>

\* storeLogsWithLabels after the loop: InsertLogBatch of the partial batch
RunFinalFlush ==
  /\ oPc = "store"
  /\ idx = Len(lines)
  /\ IF Len(batch) > 0
     THEN \/ runFails("insert batch")
          \/ /\ ~ctxDone
             /\ dbLogs' = InsertLogBatch(dbLogs, batch)
             /\ oPc' = "done"
             /\ UNCHANGED << templates, labels, semanticIDMap, idx, batch, runErr,
                             drainVars, dbPatterns, tx >>
     ELSE /\ oPc' = "done"
          /\ UNCHANGED << templates, labels, semanticIDMap, idx, batch, runErr,
                          drainVars, storeVars >>
  /\ batchCalls' = IF Len(batch) > 0 THEN Append(batchCalls, Len(batch)) ELSE batchCalls
  /\ UNCHANGED << labelCalls, patternCalls, summaries, linesFed >>
  /\ UNCHANGED << inputVars, sliceVars, ctxDone, readerVars, mergerVars, collectVars >>

runIngest ==
  \/ RunCollected \/ RunFeed \/ RunLabel \/ RunInsertPatterns
  \/ RunStoreEntry \/ RunFlushBatch \/ RunFinalFlush

(***************************************************************************)
(* SpecIngest: runIngest from the entries collectLines returned, on a      *)
(* freshly initialised store, with cancellation.                           *)
(***************************************************************************)
\* longest list of merged entries
MaxEntries == 3

EntryContents == { << "a", " ", "1" >>, << "a", " ", "2" >>, << "b" >>, << "a", NL, "1" >> }

\* physical lines of a content
NumLines(c) == 1 + Cardinality({ i \in 1..Len(c) : c[i] = NL })

\* merged entries with the given contents and consecutive line ranges
RECURSIVE Ranged(_, _)
Ranged(cs, from) ==
  IF cs = <<>> THEN <<>>
  ELSE << [StartLine |-> from, EndLine |-> from + NumLines(Head(cs)) - 1, Content |-> Head(cs)] >>
       \o Ranged(Tail(cs), from + NumLines(Head(cs)))

InitIngest ==
  /\ file = <<>>
  /\ scanFails = FALSE
  /\ closeFails = FALSE
  /\ detector = [hasRegex |-> FALSE, regex |-> {}, timestamped |-> {},
                 maxEntryBytes |-> DefaultMaxEntryBytes]
  /\ ctxDone = FALSE
  /\ rPc = "done"
  /\ lineNum = 0
  /\ fileErr = NoErr
  /\ ch = <<>>
  /\ chClosed = TRUE
  /\ chLog = <<>>
  /\ mPc = "done"
  /\ rr = ErrResult(NoErr)
  /\ isNew = FALSE
  /\ buf = <<>>
  /\ startLine = 0
  /\ endLine = 0
  /\ bufBytes = 0
  /\ everDetected = FALSE
  /\ out = <<>>
  /\ outClosed = TRUE
  /\ outLog = <<>>
  /\ cPc = "returned"
  /\ lines \in { Ranged(cs, 1) : cs \in SeqsUpTo(EntryContents, MaxEntries) }
  /\ collectErr = NoErr
  /\ SliceInit
  /\ CallIdle
  /\ drainFields \in BOOLEAN
  /\ oPc = "collect"
  /\ clusters = <<>>
  /\ clusterUUIDs = EmptyMap
  /\ templates = <<>>
  /\ labels = <<>>
  /\ semanticIDMap = EmptyMap
  /\ idx = 0
  /\ batch = <<>>
  /\ runErr = NoErr
  /\ dbPatterns = EmptyMap
  /\ dbLogs = <<>>
  /\ tx = NoTx
  /\ labelCalls = <<>>
  /\ batchCalls = <<>>
  /\ patternCalls = <<>>
  /\ summaries = <<>>
  /\ linesFed = 0

NextIngest == runIngest \/ Cancel

SpecIngest == InitIngest /\ [][NextIngest]_vars

(***************************************************************************)
(* SpecRun: the whole of runIngest, the reader, the merger and             *)
(* collectLines running as in SpecRead and the orchestrator going on from  *)
(* what collectLines returns, with cancellation at any time.               *)
(***************************************************************************)
InitRun ==
  /\ file \in SeqsUpTo(Lines, MaxLines)
  /\ scanFails \in BOOLEAN
  /\ closeFails \in BOOLEAN
  /\ detector \in Detectors
  /\ ~detector.hasRegex
  /\ detector.regex = {}
  /\ detector.maxEntryBytes = DefaultMaxEntryBytes
  /\ ctxDone = FALSE
  /\ rPc = "scan"
  /\ lineNum = 0
  /\ fileErr = NoErr
  /\ ch = <<>>
  /\ chClosed = FALSE
  /\ chLog = <<>>
  /\ MergerInit
  /\ CollectInit
  /\ SliceInit
  /\ CallIdle
  /\ IngestIdle

NextRun == Ingest \/ Cancel \/ Merge \/ collectLines \/ runIngest

SpecRun == InitRun /\ [][NextRun]_vars

(***************************************************************************)
(* SpecStore: a DuckDBStore after Init, driven as the store tests drive    *)
(* it: InsertPatterns calls, then InsertLogBatch calls, PatternSummaries   *)
(* at any time.                                                            *)
(***************************************************************************)
\* number of InsertPatterns calls
MaxPatternCalls == 2

\* longest list handed to InsertPatterns or InsertLogBatch
MaxStoreList == 2

\* number of log entries inserted
MaxStoredLogs == 2

\* every process of runIngest at rest
FrontIdle ==
  /\ file = <<>>
  /\ scanFails = FALSE
  /\ closeFails = FALSE
  /\ detector = [hasRegex |-> FALSE, regex |-> {}, timestamped |-> {},
                 maxEntryBytes |-> DefaultMaxEntryBytes]
  /\ ctxDone = FALSE
  /\ rPc = "done"
  /\ lineNum = 0
  /\ fileErr = NoErr
  /\ ch = <<>>
  /\ chClosed = TRUE
  /\ chLog = <<>>
  /\ mPc = "done"
  /\ rr = ErrResult(NoErr)
  /\ isNew = FALSE
  /\ buf = <<>>
  /\ startLine = 0
  /\ endLine = 0
  /\ bufBytes = 0
  /\ everDetected = FALSE
  /\ out = <<>>
  /\ outClosed = TRUE
  /\ outLog = <<>>
  /\ cPc = "returned"
  /\ lines = <<>>
  /\ collectErr = NoErr
  /\ SliceInit

\* the Pattern values of the calls: two ids with the same columns, and other
\* columns for the first id
StorePatterns ==
  { [PatternUUIDString |-> id, PatternType |-> "drain", RawPattern |-> << "a" >>,
     SemanticID |-> "s1", Description |-> "description"] : id \in { "u1", "u2" } }
  \cup
  { [PatternUUIDString |-> "u1", PatternType |-> "other", RawPattern |-> << "b" >>,
     SemanticID |-> "s2", Description |-> ""] }

\* the LogEntry values of the calls: no labels, or labels naming a pattern
StoreEntries ==
  { [LineNumber |-> 1, EndLineNumber |-> 1, Raw |-> << "a" >>, Labels |-> l] :
      l \in { NilLabels, PatternLabels("s1", "u1"), PatternLabels("s1", "u2"),
              PatternLabels("s2", "u1"), PatternLabels("s1", ForeignUUID) } }

\* the rows of the join of PatternSummaries for pattern row id
JoinedEntries(logs, pats, id) ==
  { i \in 1..Len(logs) : LabelValues(logs[i], "pattern") = { pats[id].semantic_id } }

\* the groups of PatternSummaries: one per pattern row with a joined entry
SummaryGroups(logs, pats) ==
  { [PatternUUIDString |-> id, Pattern |-> pats[id].raw_pattern,
     Count |-> Cardinality(JoinedEntries(logs, pats, id)),
     PatternType |-> pats[id].pattern_type, SemanticID |-> pats[id].semantic_id,
     Description |-> pats[id].description] :
      id \in { x \in DOMAIN pats : JoinedEntries(logs, pats, x) # {} } }

\* the results PatternSummaries may return: the groups ORDER BY cnt DESC, rows
\* of equal count in any order
PatternSummaries(logs, pats) ==
  LET G == SummaryGroups(logs, pats)
      n == Cardinality(G)
  IN  { sq \in [1..n -> G] :
          /\ \A i, j \in 1..n : i # j => sq[i] # sq[j]
          /\ \A i, j \in 1..n : i < j => sq[i].Count >= sq[j].Count }

StoreInsertPatterns ==
  /\ Len(patternCalls) < MaxPatternCalls
  /\ dbLogs = <<>>
  /\ \E pts \in SeqsUpTo(StorePatterns, MaxStoreList) :
       /\ dbPatterns' = InsertPatterns(dbPatterns, pts)
       /\ patternCalls' = Append(patternCalls, pts)
  /\ UNCHANGED << dbLogs, tx, labelCalls, batchCalls, summaries, linesFed, drainVars, runVars >>
  /\ UNCHANGED << inputVars, sliceVars, ctxDone, readerVars, mergerVars, collectVars >>

StoreInsertLogBatch ==
  /\ Len(patternCalls) <= 1
  /\ \E entries \in SeqsUpTo(StoreEntries, MaxStoreList) \ { <<>> } :
       /\ Len(dbLogs) + Len(entries) <= MaxStoredLogs
       /\ dbLogs' = InsertLogBatch(dbLogs, entries)
       /\ batchCalls' = Append(batchCalls, Len(entries))
  /\ UNCHANGED << dbPatterns, tx, labelCalls, patternCalls, summaries, linesFed, drainVars, runVars >>
  /\ UNCHANGED << inputVars, sliceVars, ctxDone, readerVars, mergerVars, collectVars >>

StorePatternSummaries ==
  /\ summaries' \in PatternSummaries(dbLogs, dbPatterns)
  /\ UNCHANGED << storeVars, linesFed, labelCalls, batchCalls, patternCalls, drainVars, runVars >>
  /\ UNCHANGED << inputVars, sliceVars, ctxDone, readerVars, mergerVars, collectVars >>

InitStore == FrontIdle /\ CallIdle /\ IngestIdle

NextStore == StoreInsertPatterns \/ StoreInsertLogBatch \/ StorePatternSummaries

SpecStore == InitStore /\ [][NextStore]_vars

(***************************************************************************)
(* SpecMatch: one call of MatchTemplate(line, templates)                   *)
(***************************************************************************)
\* longest template list of the call
MaxTemplates == 2

\* lines of the call: separated by one space, by two, by a newline, by a
\* delimiter, padded, a single token, empty
MatchLines ==
  { << "a", " ", "1" >>, << "a", " ", " ", "1" >>, << "a", NL, "1" >>,
    << "a", "=", "1" >>, << " ", "a", " ", "1", " " >>, << "a" >>, <<>> }

\* patterns of the templates of the call
MatchPatterns ==
  { << "a", " " >> \o WILDCARD, WILDCARD \o << " ", "1" >>, << "a", " ", "1" >>,
    WILDCARD, << "a", " ", " " >> \o WILDCARD }

\* templates with the given patterns, the k-th with the k-th id
TemplatesOf(ps) == [k \in 1..Len(ps) |-> [ID |-> UUIDPool[k], Pattern |-> ps[k], Count |-> 1]]

callMatchTemplate ==
  /\ callRet = <<>>
  /\ callRet' = << MatchTemplate(callArgs.line, callArgs.templates) >>
  /\ UNCHANGED << callArgs, sliceCalled, sliced >>
  /\ UNCHANGED << ingestVars, inputVars, ctxDone, readerVars, mergerVars, collectVars >>

InitMatch ==
  /\ FrontIdle
  /\ IngestIdle
  /\ callArgs \in { [line |-> l, templates |-> TemplatesOf(ps)] :
                      l \in MatchLines, ps \in SeqsUpTo(MatchPatterns, MaxTemplates) }
  /\ callRet = <<>>

NextMatch == callMatchTemplate

SpecMatch == InitMatch /\ [][NextMatch]_vars

(***************************************************************************)
(* SpecDrain: one DrainParser, any sequence of Feed and Templates calls    *)
(***************************************************************************)
\* number of lines fed in all
MaxFed == 3

DrainFeed ==
  /\ \E contents \in SeqsUpTo(EntryContents, MaxStoreList) \ { <<>> } :
       /\ linesFed + Len(contents) <= MaxFed
       /\ LET st == Feed([cs |-> clusters, uuids |-> clusterUUIDs], contents, 1, drainFields)
          IN  /\ clusters' = st.cs
              /\ clusterUUIDs' = st.uuids
       /\ linesFed' = linesFed + Len(contents)
  /\ UNCHANGED << drainFields, runVars, storeVars, labelCalls, batchCalls, patternCalls, summaries >>
  /\ UNCHANGED << inputVars, sliceVars, ctxDone, readerVars, mergerVars, collectVars >>

DrainTemplates ==
  /\ templates' = Templates(clusters, clusterUUIDs)
  /\ UNCHANGED << oPc, labels, semanticIDMap, idx, batch, runErr >>
  /\ UNCHANGED << drainVars, storeVars, historyVars >>
  /\ UNCHANGED << inputVars, sliceVars, ctxDone, readerVars, mergerVars, collectVars >>

InitDrain ==
  /\ FrontIdle
  /\ CallIdle
  /\ drainFields \in BOOLEAN
  /\ oPc = "collect"
  /\ clusters = <<>>
  /\ clusterUUIDs = EmptyMap
  /\ templates = <<>>
  /\ labels = <<>>
  /\ semanticIDMap = EmptyMap
  /\ idx = 0
  /\ batch = <<>>
  /\ runErr = NoErr
  /\ dbPatterns = EmptyMap
  /\ dbLogs = <<>>
  /\ tx = NoTx
  /\ labelCalls = <<>>
  /\ batchCalls = <<>>
  /\ patternCalls = <<>>
  /\ summaries = <<>>
  /\ linesFed = 0

NextDrain == DrainFeed \/ DrainTemplates

SpecDrain == InitDrain /\ [][NextDrain]_vars

(***************************************************************************)
(* SpecDetect: one call of IsNewEntry(line) on a detector built by         *)
(* NewDetector from a configuration                                        *)
(***************************************************************************)
DefaultMaxScanBytes == 60

\* values of DetectorConfig.MaxScanBytes: negative, unset, shorter than a
\* line, longer than every line
ScanBytesConfigs == { -1, 0, 1, DefaultMaxScanBytes }

\* DetectorConfig.defaults for MaxScanBytes
maxScanBytesOf(cfg) == IF cfg = 0 THEN DefaultMaxScanBytes ELSE cfg

\* IsNewEntry with the scan window: what it returns, or that it panics on
\* line[:scanLen] with a negative scanLen
IsNewEntryCall(d, maxScanBytes, line) ==
  LET scanLen == IF Len(line) > maxScanBytes THEN maxScanBytes ELSE Len(line)
  IN  IF d.hasRegex THEN [panics |-> FALSE, value |-> line \in d.regex]
      ELSE IF scanLen = 0 THEN [panics |-> FALSE, value |-> FALSE]
      ELSE IF scanLen < 0 THEN [panics |-> TRUE, value |-> FALSE]
      ELSE [panics |-> FALSE, value |-> SubSeq(line, 1, scanLen) \in d.timestamped]

callIsNewEntry ==
  /\ callRet = <<>>
  /\ callRet' = << IsNewEntryCall(callArgs.detector, maxScanBytesOf(callArgs.MaxScanBytes),
                                  callArgs.line) >>
  /\ UNCHANGED << callArgs, sliceCalled, sliced >>
  /\ UNCHANGED << ingestVars, inputVars, ctxDone, readerVars, mergerVars, collectVars >>

InitDetect ==
  /\ FrontIdle
  /\ IngestIdle
  /\ callArgs \in { [detector |-> d, MaxScanBytes |-> n, line |-> l] :
                      d \in { x \in Detectors : x.maxEntryBytes = DefaultMaxEntryBytes },
                      n \in ScanBytesConfigs, l \in Lines }
  /\ callRet = <<>>

NextDetect == callIsNewEntry

SpecDetect == InitDetect /\ [][NextDetect]_vars

(***************************************************************************)
(* Properties of the merger (checked under SpecMerge)                      *)
(***************************************************************************)
\* the merged entries among the results of a log, in order
RECURSIVE Entries(_)
Entries(log) ==
  IF log = <<>> THEN <<>>
  ELSE IF Head(log).Err = NoErr THEN << Head(log).Value >> \o Entries(Tail(log))
  ELSE Entries(Tail(log))

RECURSIVE Covered(_)
Covered(es) ==
  IF es = <<>> THEN 0
  ELSE (Head(es).EndLine - Head(es).StartLine + 1) + Covered(Tail(es))

Ordered(es) ==
  \A i \in 1..Len(es) :
    /\ es[i].StartLine <= es[i].EndLine
    /\ i < Len(es) => es[i].EndLine < es[i + 1].StartLine

\* Merge has returned after an input without read error
MergeDoneOk == mPc = "done" /\ ~scanFails

NeverDetected == \A i \in 1..Len(file) : ~IsNewEntry(detector, file[i])

\* some entry of es was cut by the max_entry_bytes check: it is followed by an
\* entry whose first line is not an entry start although one was seen before
HasOverflowFlush(es) ==
  \E i \in 1..(Len(es) - 1) :
    /\ ~IsNewEntry(detector, file[es[i + 1].StartLine])
    /\ \E j \in 1..(es[i + 1].StartLine - 1) : IsNewEntry(detector, file[j])

\* C1: line coverage: the line ranges of the entries MergeSlice returns, and of
\* the entries Merge emits for an input without read error, add up to the
\* number of physical lines.
C1_LineCoverage ==
  /\ sliceCalled => Covered(sliced) = Len(file)
  /\ MergeDoneOk => Covered(Entries(outLog)) = Len(file)

C1_Witness ==
  /\ sliceCalled
  /\ MergeDoneOk
  /\ Len(file) = MaxLines
  /\ Len(sliced) = 2
  /\ Len(Entries(outLog)) = 2

\* C2: non-overlap: in the output of MergeSlice and of Merge every entry has
\* StartLine <= EndLine and consecutive entries have strictly increasing,
\* disjoint line ranges, whichever flush produced them.
C2_NonOverlap ==
  /\ Ordered(Entries(outLog))
  /\ sliceCalled => Ordered(sliced)

C2_Witness ==
  /\ sliceCalled
  /\ mPc = "done"
  /\ HasOverflowFlush(sliced)
  /\ HasOverflowFlush(Entries(outLog))

\* C3: streaming/slice equivalence: for lines numbered 1..n and no read error
\* the sequence Merge emits on its channel is the slice MergeSlice returns,
\* the empty input included.
C3_StreamSliceEquivalence ==
  (MergeDoneOk /\ sliceCalled) =>
    /\ Len(Entries(outLog)) = Len(outLog)
    /\ Entries(outLog) = sliced

C3_Witness ==
  /\ MergeDoneOk
  /\ sliceCalled
  /\ cPc = "returned"
  /\ Len(file) = MaxLines
  /\ lines = sliced
  /\ \E i \in 1..Len(lines) : lines[i].StartLine < lines[i].EndLine

\* C4: size bound: an emitted entry whose content is longer than
\* max_entry_bytes is a single physical line, and a physical line longer than
\* max_entry_bytes is emitted as an entry of its own.
SizeBounded(es) ==
  \A i \in 1..Len(es) :
    Len(es[i].Content) > MaxEntryBytes(detector) => es[i].StartLine = es[i].EndLine

LongLinesAlone(es) ==
  \A n \in 1..Len(file) :
    Len(file[n]) > MaxEntryBytes(detector) =>
      \E i \in 1..Len(es) : es[i].StartLine = n /\ es[i].EndLine = n

C4_SizeBound ==
  /\ SizeBounded(Entries(outLog))
  /\ sliceCalled => SizeBounded(sliced) /\ LongLinesAlone(sliced)
  /\ MergeDoneOk => LongLinesAlone(Entries(outLog))

C4_Witness ==
  /\ MergeDoneOk
  /\ sliceCalled
  /\ \E n \in 2..(Len(file) - 1) :
       /\ Len(file[n]) > MaxEntryBytes(detector)
       /\ ~IsNewEntry(detector, file[n])
       /\ ~IsNewEntry(detector, file[n + 1])
       /\ IsNewEntry(detector, file[1])

\* C5: line-by-line fallback: when IsNewEntry is false for every line, the
\* merger emits one entry per physical line, in order, with StartLine =
\* EndLine = the line's number and Content = the line.
LineByLine == [i \in 1..Len(file) |-> [StartLine |-> i, EndLine |-> i, Content |-> file[i]]]

C6_FlushBeforeError ==
  (mPc = "done" /\ scanFails /\ Len(file) > 0) =>
    /\ Len(outLog) >= 2
    /\ outLog[Len(outLog)].Err # NoErr
    /\ outLog[Len(outLog) - 1].Err = NoErr
    /\ outLog[Len(outLog) - 1].Value.EndLine = Len(file)

\* C6 amended: on a read error Merge emits the error as the last element of
\* its output and closes the channel; the lines buffered at that moment are
\* not flushed, so the entries emitted before the error cover exactly the
\* lines before the buffered ones.
C6_ErrorLastBufferDropped ==
  (mPc = "done" /\ scanFails) =>
    /\ outClosed
    /\ Len(outLog) >= 1
    /\ outLog[Len(outLog)] = MergeErr("read")
    /\ \A i \in 1..(Len(outLog) - 1) : outLog[i].Err = NoErr
    /\ Covered(Entries(outLog)) + Len(buf) = Len(file)
    /\ Len(file) > 0 => (Len(buf) > 0 /\ endLine = Len(file))
    /\ \A i \in 1..(Len(outLog) - 1) : outLog[i].Value.EndLine < startLine

C6_Witness ==
  /\ mPc = "done"
  /\ scanFails
  /\ Len(file) = MaxLines
  /\ Len(buf) = 2
  /\ Len(outLog) = 2

(***************************************************************************)
(* Properties of the reader goroutine (checked under SpecRead)             *)
(***************************************************************************)
\* the results sent on ch so far, in order
ChSent == [i \in 1..Len(chLog) |-> chLog[i].res]

\* C7: reader error is final: with the context not cancelled, when scanning
\* fails the channel carries the LogLines read so far, numbered 1, 2, 3, ...,
\* then exactly one Err as the last element, and is closed; no LogLine is
\* ever delivered after an Err.
C7_ReaderErrorFinal ==
  /\ (rPc = "done" /\ ~ctxDone /\ scanFails) =>
       /\ chClosed
       /\ Len(chLog) = Len(file) + 1
       /\ SubSeq(ChSent, 1, Len(file)) = Numbered(file, 1)
       /\ ChSent[Len(chLog)].Err # NoErr
  /\ \A i \in 1..Len(chLog) : chLog[i].res.Err # NoErr => (i = Len(chLog) /\ rPc = "done")

C7_Witness ==
  /\ rPc = "done"
  /\ ~ctxDone
  /\ scanFails
  /\ Len(file) = MaxLines
  /\ chLog[Len(chLog)].res = ErrResult("read")

\* C8: reader cancellation: once the context has been cancelled the reader
\* sends no further LogLine on its channel, in every interleaving of the
\* cancellation with the send-or-cancel select.
C8_NoLineAfterCancel ==
  \A i \in 1..Len(chLog) : chLog[i].cancelled => chLog[i].res.Err # NoErr


(***************************************************************************)
(* Properties of the store after runIngest (checked under SpecIngest)      *)
(***************************************************************************)
StoredRows == { dbLogs[i] : i \in 1..Len(dbLogs) }

\* every pattern_id in the labels of a stored row is a key of the patterns table
StoreRefsResolved ==
  \A row \in StoredRows : LabelValues(row, "pattern_id") \subseteq DOMAIN dbPatterns

\* a step that adds rows to the log table finds the patterns they name
\* already in the patterns table
BatchAfterPatterns ==
  dbLogs' # dbLogs =>
    \A i \in 1..Len(dbLogs') :
      LabelValues(dbLogs'[i], "pattern_id") \subseteq DOMAIN dbPatterns

\* C9: referential integrity. In every state of the store during or after a
\* run, finished or aborted, each pattern_id found in the labels of a stored
\* log entry is the pattern_id of a row of the patterns table, and no batch
\* of entries is committed before the patterns it references.
C9_ReferentialIntegrity == [](StoreRefsResolved) /\ [][BatchAfterPatterns]_vars

\* a run, finished or aborted, that committed a batch with a labelled entry
C9_Witness ==
  /\ oPc \in { "done", "failed" }
  /\ \E row \in StoredRows : LabelValues(row, "pattern_id") # {}

BothKeys(sid, id) == { << "pattern", sid >>, << "pattern_id", id >> }

StoredMatch(row) == MatchTemplate(row.raw, templates)

\* C10 as stated: a stored entry whose content the matcher matches to a
\* template carries both keys, pattern with a semantic id and pattern_id with
\* the template's UUID; an entry no template matches has the empty object.
C10_StoredLabels ==
  \A row \in StoredRows :
    IF StoredMatch(row).ok
    THEN \E sid \in SemanticIDs : row.labels = BothKeys(sid, StoredMatch(row).t.ID)
    ELSE row.labels = {}

\* C10, amended: a stored entry carries both keys exactly when the matcher
\* returns a template for which the run recorded a semantic id (a template
\* with count > 1 that the labeler labelled); then pattern is that semantic
\* id and pattern_id the template's UUID. In every other case, no template
\* matching or the matched template having no label, the object is empty.
C10_StoredLabelsWhenLabelled ==
  \A row \in StoredRows :
    IF StoredMatch(row).ok /\ StoredMatch(row).t.ID \in DOMAIN semanticIDMap
    THEN row.labels = BothKeys(semanticIDMap[StoredMatch(row).t.ID], StoredMatch(row).t.ID)
    ELSE row.labels = {}

\* a finished run that stored a labelled entry, an entry whose template has
\* no label, and an entry no template matches
C10_Witness ==
  /\ oPc = "done"
  /\ \E row \in StoredRows :
       StoredMatch(row).ok /\ StoredMatch(row).t.ID \in DOMAIN semanticIDMap
  /\ \E row \in StoredRows :
       StoredMatch(row).ok /\ StoredMatch(row).t.ID \notin DOMAIN semanticIDMap
  /\ \E row \in StoredRows : ~StoredMatch(row).ok

(***************************************************************************)
(* Properties of storeLogsWithLabels (checked under SpecIngest)            *)
(***************************************************************************)
CeilDiv(n, d) == (n + d - 1) \div d

\* C11: complete persistence in batches. After a successful run over N merged
\* entries exactly N rows are stored, row i holding StartLine, EndLine and
\* Content of entry i; they were written by ceil(N / BatchSize) calls of
\* InsertLogBatch, each but the last with exactly BatchSize entries, the
\* last with 1..BatchSize, and none with an empty batch.
C11_BatchedPersistence ==
  oPc = "done" =>
    /\ Len(dbLogs) = Len(lines)
    /\ \A i \in 1..Len(lines) :
         /\ dbLogs[i].line_number = lines[i].StartLine
         /\ dbLogs[i].end_line_number = lines[i].EndLine
         /\ dbLogs[i].raw = lines[i].Content
    /\ Len(batchCalls) = CeilDiv(Len(lines), BatchSize)
    /\ \A k \in 1..Len(batchCalls) - 1 : batchCalls[k] = BatchSize
    /\ \A k \in 1..Len(batchCalls) : batchCalls[k] \in 1..BatchSize

\* a successful run that wrote a full batch and then a partial one
C11_Witness ==
  /\ oPc = "done"
  /\ Len(batchCalls) >= 2
  /\ batchCalls[Len(batchCalls)] < BatchSize

\* C12: labeler failure is fatal. When semantic.Label returns an error the run
\* returns an error and has written nothing: no row of patterns, no row of
\* log_entries, and no call of InsertLogBatch was made.
C12_LabelerFailureFatal ==
  runErr = "label" =>
    /\ oPc = "failed"
    /\ DOMAIN dbPatterns = {}
    /\ dbLogs = <<>>
    /\ batchCalls = <<>>

\* a run whose labeler call failed, over entries that would have been stored
C12_Witness ==
  /\ runErr = "label"
  /\ Len(labelCalls) = 1
  /\ Len(lines) >= BatchSize

\* the step in which runIngest returns
RunEnds == oPc \notin { "done", "failed" } /\ oPc' \in { "done", "failed" }

\* C13: no partial commit on cancellation. A run that is aborted after the
\* context was cancelled ends with none of its patterns and none of its log
\* entries committed to the store.
C13_NoPartialCommitOnCancel ==
  [][(ctxDone /\ RunEnds /\ oPc' = "failed") =>
       (DOMAIN dbPatterns' = {} /\ dbLogs' = <<>>)]_vars

(***************************************************************************)
(* Properties of the whole run (checked under SpecRun)                     *)
(***************************************************************************)
\* the reader has sent a read error on its channel
ReadErrorReported == \E i \in 1..Len(chLog) : chLog[i].res.Err # NoErr

\* C14: a source read error discards the partial output. Once the reader has
\* reported a read error, the orchestrator never gets past collectLines other
\* than by returning that error: nothing is fed to the clusterer, the labeler
\* is not called, and no pattern or log entry is written.
C14_ReadErrorDiscardsOutput ==
  ReadErrorReported =>
    /\ oPc \in { "collect", "failed" }
    /\ cPc = "returned" => collectErr # NoErr /\ lines = <<>>
    /\ oPc = "failed" => runErr = collectErr
    /\ clusters = <<>>
    /\ labelCalls = <<>>
    /\ DOMAIN dbPatterns = {}
    /\ dbLogs = <<>>
    /\ batchCalls = <<>>

\* a run that returned the read error after the merger had emitted an entry
C14_Witness ==
  /\ ReadErrorReported
  /\ oPc = "failed"
  /\ \E i \in 1..Len(outLog) : outLog[i].Err = NoErr

(***************************************************************************)
(* Properties of the store operations (checked under SpecStore)            *)
(***************************************************************************)
RECURSIVE Flatten(_)
Flatten(ss) == IF ss = <<>> THEN <<>> ELSE Head(ss) \o Flatten(Tail(ss))

\* every Pattern ever inserted, in order
InsertedPatterns == Flatten(patternCalls)

\* position of the most recently inserted Pattern with this id
LastInserted(id) ==
  CHOOSE k \in 1..Len(InsertedPatterns) :
    /\ InsertedPatterns[k].PatternUUIDString = id
    /\ \A j \in 1..Len(InsertedPatterns) :
         InsertedPatterns[j].PatternUUIDString = id => j <= k

\* C15: pattern upsert. After any sequence of successful InsertPatterns calls
\* the table has one row per pattern_id ever inserted, carrying pattern_type,
\* raw_pattern, semantic_id and description of the most recently inserted
\* Pattern with that id; inserting the last list once more changes nothing.
C15_PatternUpsert ==
  /\ DOMAIN dbPatterns =
       { InsertedPatterns[k].PatternUUIDString : k \in 1..Len(InsertedPatterns) }
  /\ \A id \in DOMAIN dbPatterns :
       LET pt == InsertedPatterns[LastInserted(id)]
       IN  /\ dbPatterns[id].pattern_type = pt.PatternType
           /\ dbPatterns[id].raw_pattern = pt.RawPattern
           /\ dbPatterns[id].semantic_id = pt.SemanticID
           /\ dbPatterns[id].description = pt.Description
  /\ patternCalls # <<>> =>
       InsertPatterns(dbPatterns, patternCalls[Len(patternCalls)]) = dbPatterns

\* two calls that inserted the same pattern_id with different columns
C15_Witness ==
  /\ Len(patternCalls) = 2
  /\ \E i \in 1..Len(patternCalls[1]), j \in 1..Len(patternCalls[2]) :
       /\ patternCalls[1][i].PatternUUIDString = patternCalls[2][j].PatternUUIDString
       /\ patternCalls[1][i].SemanticID # patternCalls[2][j].SemanticID

\* the stored entries whose labels.pattern_id is id
EntriesOfPattern(id) ==
  { i \in 1..Len(dbLogs) : LabelValues(dbLogs[i], "pattern_id") = { id } }

\* C16: pattern summaries. A PatternSummaries call returns one summary for
\* each pattern row that some entry names in labels.pattern_id, its count the
\* number of such entries (also when two rows share a semantic_id), nothing
\* for entries whose pattern_id has no row, ordered by count descending.
C16_SummariesJoinOnPatternId ==
  [][summaries' # summaries =>
       /\ { summaries'[k].PatternUUIDString : k \in 1..Len(summaries') } =
            { id \in DOMAIN dbPatterns : EntriesOfPattern(id) # {} }
       /\ \A j, k \in 1..Len(summaries') :
            j # k => summaries'[j].PatternUUIDString # summaries'[k].PatternUUIDString
       /\ \A k \in 1..Len(summaries') :
            summaries'[k].Count = Cardinality(EntriesOfPattern(summaries'[k].PatternUUIDString))
       /\ \A j, k \in 1..Len(summaries') :
            j < k => summaries'[j].Count >= summaries'[k].Count]_vars

(***************************************************************************)
(* Properties of MatchTemplate (checked under SpecMatch)                   *)
(***************************************************************************)
\* a template list and a result that agree: the result is the first template
\* of the list satisfying Matches, or (zero value, false) if there is none
FirstMatch(ts, r, Matches(_)) ==
  LET hits == { k \in 1..Len(ts) : Matches(ts[k].Pattern) }
  IN  IF hits = {}
      THEN ~r.ok /\ r.t = ZeroCluster
      ELSE r.ok /\ \E k \in hits : r.t = ts[k] /\ \A j \in hits : k <= j

\* tokens separated by white space or one of | = ,
WhitespaceTokens(s) == Fields(replaceDelimiters(s))

\* tokens of s after | = , became spaces and the white space around s was
\* removed: the pieces between every two neighbouring space characters
SingleSpaceTokens(s) ==
  LET t == TrimSpace(replaceDelimiters(s))
      sp == { i \in 1..Len(t) : t[i] = " " }
      pos(k) == IF k = 0 THEN 0
                ELSE IF k = Cardinality(sp) + 1 THEN Len(t) + 1
                ELSE CHOOSE i \in sp : Cardinality({ j \in sp : j < i }) = k - 1
  IN  [k \in 1..Cardinality(sp) + 1 |-> SubSeq(t, pos(k - 1) + 1, pos(k) - 1)]

\* same number of tokens, each pattern token the line's token or <*>
TokensAgree(lt, pt) ==
  /\ Len(lt) = Len(pt)
  /\ \A i \in 1..Len(pt) : pt[i] = lt[i] \/ pt[i] = WILDCARD

\* C17 as stated: MatchTemplate returns the first template in input order
\* whose pattern, tokenised at white space and | = , has as many tokens as the
\* line and at each position the line's token or <*>; (zero value, false)
\* exactly when there is none.
C17_FirstMatchingTemplate ==
  callRet # <<>> =>
    LET Matches(p) == TokensAgree(WhitespaceTokens(callArgs.line), WhitespaceTokens(p))
    IN  FirstMatch(callArgs.templates, callRet[1], Matches)

\* C17, amended: the same with line and pattern tokenised as the code does:
\* | = , replaced by spaces, surrounding white space removed, then cut at
\* every single space character, so that two adjacent spaces enclose an empty
\* token and a newline separates nothing.
C17_FirstMatchingTemplateSingleSpace ==
  callRet # <<>> =>
    LET Matches(p) == TokensAgree(SingleSpaceTokens(callArgs.line), SingleSpaceTokens(p))
    IN  FirstMatch(callArgs.templates, callRet[1], Matches)

\* a call that two templates of the list match, answered with a template
C17_Witness ==
  /\ callRet # <<>>
  /\ callRet[1].ok
  /\ Len(callArgs.templates) = 2
  /\ \A k \in 1..2 :
       TokensAgree(SingleSpaceTokens(callArgs.line),
                   SingleSpaceTokens(callArgs.templates[k].Pattern))
  /\ callArgs.templates[1].Pattern # callArgs.templates[2].Pattern

(***************************************************************************)
(* Properties of DrainParser (checked under SpecDrain)                     *)
(***************************************************************************)
\* two different clusters never have the same UUID
DistinctUUIDs ==
  \A c, d \in DOMAIN clusterUUIDs : c # d => clusterUUIDs[c] # clusterUUIDs[d]

\* a step leaves every cluster the UUID it has
UUIDsKept ==
  \A c \in DOMAIN clusterUUIDs :
    c \in DOMAIN clusterUUIDs' /\ clusterUUIDs'[c] = clusterUUIDs[c]

\* a Templates call reports every cluster, each under its UUID
TemplatesReportUUIDs ==
  templates' # templates =>
    /\ Len(templates') = Len(clusters)
    /\ \A k \in 1..Len(clusters) :
         /\ clusters[k].ClusterId \in DOMAIN clusterUUIDs
         /\ templates'[k].ID = clusterUUIDs[clusters[k].ClusterId]

\* C18: stable template identity. Across any sequence of Feed and Templates
\* calls a cluster keeps the UUID given when a line first landed in it, every
\* Templates call reports the cluster under that UUID, and two clusters never
\* share a UUID.
C18_StableTemplateIdentity ==
  [](DistinctUUIDs) /\ [][UUIDsKept /\ TemplatesReportUUIDs]_vars

\* all lines fed, two clusters at least, one holding two lines, all reported
C18_Witness ==
  /\ Len(clusters) >= 2
  /\ Len(templates) = Len(clusters)
  /\ \E k \in 1..Len(templates) : templates[k].Count >= 2
  /\ linesFed = MaxFed

\* C19: template counts account for every line. After feeding any sequence of
\* lines, every template Templates returns has Count >= 1 and the Counts sum
\* to the number of lines fed.
C19_CountsSumToLinesFed ==
  LET ts == Templates(clusters, clusterUUIDs)
      SumTo[k \in 0..Len(ts)] == IF k = 0 THEN 0 ELSE SumTo[k - 1] + ts[k].Count
  IN  /\ \A k \in 1..Len(ts) : ts[k].Count >= 1
      /\ SumTo[Len(ts)] = linesFed

\* lines fed in more than one call, some sharing a template
C19_Witness ==
  /\ linesFed = MaxFed
  /\ Len(clusters) < linesFed
  /\ Len(clusters) >= 2
  /\ Len(templates) = Len(clusters)

(***************************************************************************)
(* Properties of the detector (checked under SpecDetect)                   *)
(***************************************************************************)
\* C20: empty lines are never entry starts. IsNewEntry("") returns false for
\* every detector configuration, with or without a first-line regex.
C20_EmptyLineNeverNewEntry ==
  (callRet # <<>> /\ callArgs.line = <<>>) =>
    (~callRet[1].panics /\ ~callRet[1].value)

(***************************************************************************)
(* The labeler's response parser (pkg/semantic, parseResponse)             *)
(*                                                                         *)
(* A response content is a sequence of lexical items: white space, the     *)
(* three-backtick fence, the JSON punctuation, an object holding the three *)
(* label fields as strings, the literal null, and a word that is no JSON.  *)
(***************************************************************************)
\* number of lexical items of an arbitrary response body
MaxContent == 4

\* number of objects of a clean array
MaxLabels == 2

\* the three backticks that open or close a markdown code block
Fence == "FENCE"

\* {"pattern_id":"u1","semantic_id":"s1","description":"d"}
LabelObject == "{}"

ContentItems == { " ", "[", "]", ",", LabelObject, "null", "x" }

\* what decoding LabelObject into a SemanticLabel gives
DecodedLabel == [PatternUUIDString |-> "u1", SemanticID |-> "s1", Description |-> "d"]

\* the zero SemanticLabel, left untouched by a null array element
ZeroLabel == [PatternUUIDString |-> "", SemanticID |-> "", Description |-> ""]

jsonFail == [ok |-> FALSE, rest |-> <<>>, kind |-> "", elems |-> <<>>]

\* encoding/json's scanner on one value: its kind, the kinds of the elements
\* of an array, and the input left after it
RECURSIVE jsonValue(_), jsonElems(_, _)
jsonValue(s0) ==
  LET s == TrimLeft(s0)
  IN  IF s = <<>> THEN jsonFail
      ELSE IF Head(s) = "null"
        THEN [ok |-> TRUE, rest |-> Tail(s), kind |-> "null", elems |-> <<>>]
      ELSE IF Head(s) = LabelObject
        THEN [ok |-> TRUE, rest |-> Tail(s), kind |-> "object", elems |-> <<>>]
      ELSE IF Head(s) = "["
        THEN LET t == TrimLeft(Tail(s))
             IN  IF t # <<>> /\ Head(t) = "]"
                   THEN [ok |-> TRUE, rest |-> Tail(t), kind |-> "array", elems |-> <<>>]
                   ELSE jsonElems(t, <<>>)
      ELSE jsonFail

jsonElems(s, acc) ==
  LET v == jsonValue(s)
  IN  IF ~v.ok THEN jsonFail
      ELSE LET t == TrimLeft(v.rest)
               seen == Append(acc, v.kind)
           IN  IF t = <<>> THEN jsonFail
               ELSE IF Head(t) = "]"
                 THEN [ok |-> TRUE, rest |-> Tail(t), kind |-> "array", elems |-> seen]
               ELSE IF Head(t) = "," THEN jsonElems(Tail(t), seen)
               ELSE jsonFail

\* json.Unmarshal([]byte(content), &labels) with labels a nil []SemanticLabel:
\* a syntax error for invalid JSON; null leaves the slice nil; an array decodes
\* element by element, an object into a label, null into the zero label; any
\* other value, at the top or as an element, is a type error
Unmarshal(content) ==
  LET v == jsonValue(content)
  IN  IF ~v.ok \/ TrimLeft(v.rest) # <<>> THEN [labels |-> <<>>, err |-> "syntax"]
      ELSE IF v.kind = "null" THEN [labels |-> <<>>, err |-> NoErr]
      ELSE IF v.kind # "array" THEN [labels |-> <<>>, err |-> "type"]
      ELSE IF \E i \in 1..Len(v.elems) : v.elems[i] = "array"
        THEN [labels |-> <<>>, err |-> "type"]
      ELSE [labels |-> [i \in 1..Len(v.elems) |->
                          IF v.elems[i] = "object" THEN DecodedLabel ELSE ZeroLabel],
            err |-> NoErr]

\* parseResponse with every fence removed from the content first
parseResponseIgnoringFences(content) ==
  LET r == Unmarshal(SelectSeq(TrimSpace(content), LAMBDA x : x # Fence))
  IN  IF r.err # NoErr THEN [labels |-> <<>>, err |-> "JSON decode"]
      ELSE [labels |-> r.labels, err |-> NoErr]

parseResponse(content) ==
  LET r == Unmarshal(TrimSpace(content))
  IN  IF r.err # NoErr THEN [labels |-> <<>>, err |-> "JSON decode"]
      ELSE [labels |-> r.labels, err |-> NoErr]

\* a body as it is, behind an opening fence line, and between two fence lines
Fenced(body) == << Fence, NL >> \o body \o << NL, Fence >>
FencedOpen(body) == << Fence, NL >> \o body

\* the array of n label objects, written without white space
RECURSIVE ObjectList(_)
ObjectList(n) ==
  IF n = 0 THEN <<>>
  ELSE IF n = 1 THEN << LabelObject >>
  ELSE ObjectList(n - 1) \o << ",", LabelObject >>

CleanArray(n) == << "[" >> \o ObjectList(n) \o << "]" >>

ResponseContents ==
  LET bodies == SeqsUpTo(ContentItems, MaxContent) \cup { CleanArray(n) : n \in 0..MaxLabels }
  IN  bodies \cup { Fenced(b) : b \in bodies } \cup { FencedOpen(b) : b \in bodies }

callParseResponse ==
  /\ callRet = <<>>
  /\ callRet' = << parseResponse(callArgs.content) >>
  /\ UNCHANGED << callArgs, sliceCalled, sliced >>
  /\ UNCHANGED << ingestVars, inputVars, ctxDone, readerVars, mergerVars, collectVars >>

InitParse ==
  /\ FrontIdle
  /\ IngestIdle
  /\ callArgs \in { [content |-> c] : c \in ResponseContents }
  /\ callRet = <<>>

NextParse == callParseResponse

SpecParse == InitParse /\ [][NextParse]_vars

(***************************************************************************)
(* Properties of the labeler's response parser (checked under SpecParse)   *)
(***************************************************************************)
ItemsOf(content) == SelectSeq(content, LAMBDA x : x \notin Whitespace)

\* the content is a JSON array whose elements are all label objects
IsLabelArray(content) ==
  LET v == jsonValue(content)
  IN  /\ v.ok /\ TrimLeft(v.rest) = <<>>
      /\ v.kind = "array"
      /\ \A i \in 1..Len(v.elems) : v.elems[i] = "object"

NumObjects(content) == Len(SelectSeq(content, LAMBDA x : x = LabelObject))

HasFence(content) == \E i \in 1..Len(content) : content[i] = Fence

\* the content is JSON that Unmarshal stores into a slice of labels
IsNullOrArrayOfObjectsAndNulls(content) ==
  LET v == jsonValue(content)
  IN  /\ v.ok /\ TrimLeft(v.rest) = <<>>
      /\ \/ v.kind = "null"
         \/ /\ v.kind = "array"
            /\ \A i \in 1..Len(v.elems) : v.elems[i] \in { "object", "null" }

ReadCutShort ==
  /\ rPc = "done"
  /\ ctxDone
  /\ Len(SelectSeq(chLog, LAMBDA e : e.res.Err = NoErr)) < Len(file)

\* C22: abort on cancellation during reading. When the context is cancelled
\* while the source is still being read, the orchestrator aborts the run at the
\* closure of the merged-entry channel: it feeds nothing to the clusterer, does
\* not call the labeler and does not write to the store.
C22_AbortOnCancelDuringRead ==
  ReadCutShort =>
    /\ oPc \in { "collect", "failed" }
    /\ linesFed = 0
    /\ labelCalls = <<>>
    /\ patternCalls = <<>>
    /\ batchCalls = <<>>

(***************************************************************************)
(* Properties of round 2 (checked under SpecIngest)                        *)
(***************************************************************************)
\* the full template list of the clusterer, single-line clusters included
FullTemplates == Templates(clusters, clusterUUIDs)

\* the semantic ids the labeler returned for template t, t having been one of
\* its inputs (a template with count > 1)
ReceivedLabels(t) ==
  { labels[i].SemanticID :
      i \in { j \in 1..Len(labels) : labels[j].PatternUUIDString = t.ID /\ t.Count > 1 } }

\* the labels object round 2 owes to an entry of the given content
Round2Labels(content) ==
  LET m == MatchTemplate(content, FullTemplates)
  IN  IF m.ok /\ ReceivedLabels(m.t) # {}
      THEN { { << "pattern", sid >>, << "pattern_id", m.t.ID >> } : sid \in ReceivedLabels(m.t) }
      ELSE { {} }

\* C23: round-2 label attachment. Each merged entry is matched against the
\* full template list, templates with count = 1 included; the entry is batched
\* and stored with {pattern: semantic_id, pattern_id: uuid} of the template the
\* matcher returned when the labeler returned a label for that template, and
\* with empty labels when no template matched or the template has no label.
C23_Round2Attachment ==
  /\ \A k \in 1..Len(batch) :
       /\ batch[k].Raw = lines[idx - Len(batch) + k].Content
       /\ marshalLabels(batch[k].Labels) \in Round2Labels(batch[k].Raw)
  /\ \A row \in StoredRows : row.labels \in Round2Labels(row.raw)

\* a finished run that stored an entry with the label of its template and an
\* entry matched to a template of count 1, which has none
C23_Witness ==
  /\ oPc = "done"
  /\ \E row \in StoredRows : row.labels # {} /\ row.labels \in Round2Labels(row.raw)
  /\ \E row \in StoredRows :
       LET m == MatchTemplate(row.raw, FullTemplates)
       IN  m.ok /\ m.t.Count = 1 /\ row.labels = {}

(***************************************************************************)
(* Properties of pattern discovery (checked under SpecIngest)              *)
(***************************************************************************)
\* the templates of the clusterer that stand for more than one line
Generalised == { FullTemplates[k] : k \in { j \in 1..Len(FullTemplates) : FullTemplates[j].Count > 1 } }

GeneralisedIDs == { t.ID : t \in Generalised }

\* a list names each generalised template once, and nothing else
OneEach(ids) ==
  /\ { ids[i] : i \in 1..Len(ids) } = GeneralisedIDs
  /\ Len(ids) = Cardinality(GeneralisedIDs)

\* C24: only generalised templates become patterns. The labeler is called with
\* exactly the templates of count > 1 and is not called when there is none; the
\* rows inserted into patterns are exactly those templates, one row each with
\* pattern_type "drain" and the template text, labelled or not; a template of
\* count = 1 is neither sent to the labeler nor inserted.
C24_OnlyGeneralisedBecomePatterns ==
  /\ Len(labelCalls) <= 1
  /\ \A c \in 1..Len(labelCalls) :
       /\ GeneralisedIDs # {}
       /\ OneEach([i \in 1..Len(labelCalls[c]) |-> labelCalls[c][i].PatternUUIDString])
  /\ \A c \in 1..Len(patternCalls) :
       /\ Len(labelCalls) = 1
       /\ OneEach([i \in 1..Len(patternCalls[c]) |-> patternCalls[c][i].PatternUUIDString])
       /\ \A i \in 1..Len(patternCalls[c]) :
            /\ patternCalls[c][i].PatternType = "drain"
            /\ \E t \in Generalised :
                 /\ t.ID = patternCalls[c][i].PatternUUIDString
                 /\ t.Pattern = patternCalls[c][i].RawPattern
  /\ DOMAIN dbPatterns \subseteq GeneralisedIDs
  /\ oPc = "done" => DOMAIN dbPatterns = GeneralisedIDs
  /\ GeneralisedIDs = {} => (labelCalls = <<>> /\ patternCalls = <<>>)

\* a finished run with a template of count 1 and a generalised template that
\* the labeler left without a label, stored as a pattern all the same
C24_Witness ==
  /\ oPc = "done"
  /\ \E k \in 1..Len(FullTemplates) : FullTemplates[k].Count = 1
  /\ \E id \in GeneralisedIDs : id \in DOMAIN dbPatterns /\ dbPatterns[id].semantic_id = ""

(***************************************************************************)
(* The token graph's score (pkg/multiline, matchProbability)               *)
(*                                                                         *)
(* Tokens are two token kinds; a graph is its set of adjacent pairs. A     *)
(* matchContext is kept as the sum of its run and the run's bounds: its    *)
(* probability is sum / (end - start), and 0 for the zero matchContext.    *)
(***************************************************************************)
\* number of tokens of a scored sequence
MaxTokens == 10

minimumTokenLength == 8

Tokens == { 1, 2 }

\* adjacencies: after token 1 anything; or the two kinds alternating
TokenGraphs == { { << 1, 1 >>, << 1, 2 >> }, { << 1, 2 >>, << 2, 1 >> } }

ZeroContext == [sum |-> 0, start |-> 0, end |-> 0]

\* matchForIndex(i), i counted from 0: lastToken is ts[i] when it is called
matchForIndex(adjacencies, ts, i) ==
  IF << ts[i + 1], ts[i + 2] >> \in adjacencies THEN 1 ELSE -1

\* the loop of maxSubsequence without the restart at a negative running sum
RECURSIVE subsequenceLoopNoRestart(_, _, _)
subsequenceLoopNoRestart(v, i, s) ==
  IF ~(i < Len(v)) THEN s
  ELSE LET currentSum == s.currentSum + v[i + 1]
           better == currentSum > s.maxSum
       IN  subsequenceLoopNoRestart(v, i + 1,
             [maxSum |-> IF better THEN currentSum ELSE s.maxSum,
              currentSum |-> currentSum,
              start |-> s.start,
              end |-> IF better THEN i ELSE s.end,
              tempStart |-> s.tempStart])

\* the loop of maxSubsequence from i on, v[i + 1] being matchForIndex(i)
RECURSIVE subsequenceLoop(_, _, _)
subsequenceLoop(v, i, s) ==
  IF ~(i < Len(v)) THEN s
  ELSE LET x == v[i + 1]
           restart == x > s.currentSum + x
           currentSum == IF restart THEN x ELSE s.currentSum + x
           tempStart == IF restart THEN i ELSE s.tempStart
           better == currentSum > s.maxSum
       IN  subsequenceLoop(v, i + 1,
             [maxSum |-> IF better THEN currentSum ELSE s.maxSum,
              currentSum |-> currentSum,
              start |-> IF better THEN tempStart ELSE s.start,
              end |-> IF better THEN i ELSE s.end,
              tempStart |-> tempStart])

\* maxSubsequence(len(v), matchForIndex), v holding matchForIndex(0..len-1)
maxSubsequence(v) ==
  IF Len(v) = 0 THEN ZeroContext
  ELSE LET s == subsequenceLoop(v, 1, [maxSum |-> v[1], currentSum |-> v[1],
                                       start |-> 0, end |-> 0, tempStart |-> 0])
       IN  [sum |-> s.maxSum, start |-> s.start, end |-> s.end + 1]

matchProbability(adjacencies, ts) ==
  IF Len(ts) < minimumTokenLength THEN ZeroContext
  ELSE LET r == maxSubsequence([k \in 1..(Len(ts) - 1) |-> matchForIndex(adjacencies, ts, k - 1)])
       IN  IF r.end - r.start < minimumTokenLength THEN ZeroContext ELSE r

callMatchProbability ==
  /\ callRet = <<>>
  /\ callRet' = << matchProbability(callArgs.adjacencies, callArgs.ts) >>
  /\ UNCHANGED << callArgs, sliceCalled, sliced >>
  /\ UNCHANGED << ingestVars, inputVars, ctxDone, readerVars, mergerVars, collectVars >>

InitScore ==
  /\ FrontIdle
  /\ IngestIdle
  /\ callArgs \in { [adjacencies |-> g, ts |-> ts] :
                      g \in TokenGraphs, ts \in SeqsUpTo(Tokens, MaxTokens) }
  /\ callRet = <<>>

NextScore == callMatchProbability

SpecScore == InitScore /\ [][NextScore]_vars

(***************************************************************************)
(* Properties of the token graph's score (checked under SpecScore)         *)
(***************************************************************************)
\* +1 for the pair of tokens k, k + 1 when the graph has it, -1 otherwise
Credit(k) ==
  IF << callArgs.ts[k], callArgs.ts[k + 1] >> \in callArgs.adjacencies THEN 1 ELSE -1

NumPairs == IF Len(callArgs.ts) = 0 THEN 0 ELSE Len(callArgs.ts) - 1

\* sum of the credits of the pairs a + 1 .. b: the run [a, b) counted from 0
RunSum(a, b) ==
  LET S[k \in a..b] == IF k = a THEN 0 ELSE S[k - 1] + Credit(k)
  IN  S[b]

Runs == { r \in (0..NumPairs) \X (0..NumPairs) : r[1] < r[2] }

IsRun(r) == r.start < r.end /\ r.end <= NumPairs /\ r.sum = RunSum(r.start, r.end)

\* C25: token-graph score. matchProbability credits each adjacent pair with +1
\* or -1 and, when it returns a run, returns the contiguous run of pairs of
\* maximum average credit among all contiguous runs, its probability being the
\* sum of the run's credits divided by end - start.
C25_MaximumAverageRun ==
  (callRet # <<>> /\ callRet[1] # ZeroContext) =>
    LET r == callRet[1]
    IN  /\ IsRun(r)
        /\ \A q \in Runs :
             RunSum(q[1], q[2]) * (r.end - r.start) <= r.sum * (q[2] - q[1])

\* the runs of maximum sum of credits
MaxSumRuns == { q \in Runs : \A p \in Runs : RunSum(p[1], p[2]) <= RunSum(q[1], q[2]) }

\* the run of maximum sum that ends first and, among those, starts first
FirstMaxSumRun ==
  CHOOSE q \in MaxSumRuns :
    \A p \in MaxSumRuns : q[2] < p[2] \/ (q[2] = p[2] /\ q[1] <= p[1])

\* C25 as the code has it: the run is the contiguous run of pairs of maximum
\* sum of credits (the one ending first, and of those the one starting first),
\* its probability the sum divided by end - start; for fewer tokens than
\* minimumTokenLength, or a run shorter than that, the zero matchContext.
C25_MaximumSumRun ==
  callRet # <<>> =>
    LET r == callRet[1]
    IN  IF Len(callArgs.ts) < minimumTokenLength
           \/ FirstMaxSumRun[2] - FirstMaxSumRun[1] < minimumTokenLength
        THEN r = ZeroContext
        ELSE /\ IsRun(r)
             /\ << r.start, r.end >> = FirstMaxSumRun

\* a returned run that a shorter run beats on average
C25_Witness ==
  /\ callRet # <<>>
  /\ callRet[1] # ZeroContext
  /\ IsRun(callRet[1])
  /\ << callRet[1].start, callRet[1].end >> = FirstMaxSumRun
  /\ \E q \in Runs :
       RunSum(q[1], q[2]) * (callRet[1].end - callRet[1].start) > callRet[1].sum * (q[2] - q[1])

(***************************************************************************)
(* InsertLogBatch statement by statement (pkg/store)                       *)
(*                                                                         *)
(* dbLogs holds the committed rows, the ones a query sees; tx.rows holds   *)
(* the rows executed inside the open transaction. A cancelled context      *)
(* makes BeginTx, PrepareContext, ExecContext and Commit fail.             *)
(***************************************************************************)
\* the deferred tx.Rollback() of a failed call: the executed rows are dropped
txFails(e) ==
  /\ tx' = [tx EXCEPT !.pc = "returned", !.rows = <<>>, !.err = e]
  /\ UNCHANGED dbLogs

\* tx, err := s.db.BeginTx(ctx, nil)
BatchBegin ==
  /\ tx.pc = "begin"
  /\ \/ txFails("begin tx")
     \/ /\ ~ctxDone
        /\ tx' = [tx EXCEPT !.pc = "prepare"]
        /\ UNCHANGED dbLogs
  /\ UNCHANGED << dbPatterns, drainVars, runVars, historyVars >>
  /\ UNCHANGED << inputVars, sliceVars, ctxDone, readerVars, mergerVars, collectVars >>

\* stmt, err := tx.PrepareContext(ctx, INSERT INTO log_entries ...)
BatchPrepare ==
  /\ tx.pc = "prepare"
  /\ \/ txFails("prepare")
     \/ /\ ~ctxDone
        /\ tx' = [tx EXCEPT !.pc = "exec"]
        /\ UNCHANGED dbLogs
  /\ UNCHANGED << dbPatterns, drainVars, runVars, historyVars >>
  /\ UNCHANGED << inputVars, sliceVars, ctxDone, readerVars, mergerVars, collectVars >>

\* an Exec outside any transaction: the row is committed at once
BatchExecAutocommit ==
  /\ tx.pc = "exec"
  /\ tx.executed < Len(tx.entries)
  /\ \/ txFails("exec")
     \/ /\ ~ctxDone
        /\ tx' = [tx EXCEPT !.executed = tx.executed + 1]
        /\ dbLogs' = Append(dbLogs, LogRow(tx.entries[tx.executed + 1]))
  /\ UNCHANGED << dbPatterns, drainVars, runVars, historyVars >>
  /\ UNCHANGED << inputVars, sliceVars, ctxDone, readerVars, mergerVars, collectVars >>

\* one iteration of the loop: marshalLabels, stmt.ExecContext(ctx, ...)
BatchExec ==
  /\ tx.pc = "exec"
  /\ tx.executed < Len(tx.entries)
  /\ \/ txFails("exec")
     \/ /\ ~ctxDone
        /\ tx' = [tx EXCEPT !.executed = tx.executed + 1,
                            !.rows = Append(tx.rows, LogRow(tx.entries[tx.executed + 1]))]
        /\ UNCHANGED dbLogs
  /\ UNCHANGED << dbPatterns, drainVars, runVars, historyVars >>
  /\ UNCHANGED << inputVars, sliceVars, ctxDone, readerVars, mergerVars, collectVars >>

\* tx.Commit() after the loop
BatchCommit ==
  /\ tx.pc = "exec"
  /\ tx.executed = Len(tx.entries)
  /\ \/ txFails("commit")
     \/ /\ ~ctxDone
        /\ dbLogs' = dbLogs \o tx.rows
        /\ tx' = [tx EXCEPT !.pc = "returned", !.rows = <<>>]
  /\ UNCHANGED << dbPatterns, drainVars, runVars, historyVars >>
  /\ UNCHANGED << inputVars, sliceVars, ctxDone, readerVars, mergerVars, collectVars >>

\* the rows log_entries may hold when InsertLogBatch is called
RowsBefore == { <<>>, << LogRow([LineNumber |-> 9, EndLineNumber |-> 9, Raw |-> << "b" >>,
                                 Labels |-> NilLabels]) >> }

InitBatch ==
  /\ FrontIdle
  /\ CallIdle
  /\ drainFields = FALSE
  /\ oPc = "collect"
  /\ clusters = <<>>
  /\ clusterUUIDs = EmptyMap
  /\ templates = <<>>
  /\ labels = <<>>
  /\ semanticIDMap = EmptyMap
  /\ idx = 0
  /\ batch = <<>>
  /\ runErr = NoErr
  /\ dbPatterns = EmptyMap
  /\ dbLogs \in RowsBefore
  /\ \E es \in SeqsUpTo(StoreEntries, MaxStoreList) :
       tx = [pc |-> "begin", entries |-> es, rows |-> <<>>, executed |-> 0,
             before |-> dbLogs, err |-> NoErr]
  /\ labelCalls = <<>>
  /\ batchCalls = <<>>
  /\ patternCalls = <<>>
  /\ summaries = <<>>
  /\ linesFed = 0

NextBatch == BatchBegin \/ BatchPrepare \/ BatchExec \/ BatchCommit \/ Cancel

SpecBatch == InitBatch /\ [][NextBatch]_vars

(***************************************************************************)
(* Properties of InsertLogBatch (checked under SpecBatch)                  *)
(***************************************************************************)
BatchRows == [i \in 1..Len(tx.entries) |-> LogRow(tx.entries[i])]

\* C26: batch atomicity. InsertLogBatch is all-or-nothing: log_entries holds
\* the rows stored before the call until the call commits, and after a call
\* that failed at BeginTx, Prepare, an Exec or Commit (a cancelled context
\* included) it holds exactly those rows, none of the batch; after a call that
\* returned nil it holds them followed by every row of the batch.
C26_BatchAllOrNothing ==
  /\ dbLogs \in { tx.before, tx.before \o BatchRows }
  /\ tx.pc # "returned" => dbLogs = tx.before
  /\ (tx.pc = "returned" /\ tx.err # NoErr) => dbLogs = tx.before
  /\ (tx.pc = "returned" /\ tx.err = NoErr) => dbLogs = tx.before \o BatchRows

\* a call cancelled after its first Exec, on a table that already had a row
C26_Witness ==
  /\ tx.pc = "returned"
  /\ tx.err = "exec"
  /\ ctxDone
  /\ tx.executed >= 1
  /\ tx.executed < Len(tx.entries)
  /\ tx.before # <<>>

(***************************************************************************)
(* Properties of the entries' contents (checked under SpecMerge)           *)
(***************************************************************************)
\* every entry's Content is the physical lines StartLine..EndLine, in input
\* order, joined by single newlines
ContentOfItsLines(es) ==
  \A i \in 1..Len(es) :
    /\ 1 <= es[i].StartLine
    /\ es[i].EndLine <= Len(file)
    /\ es[i].Content = Join(SubSeq(file, es[i].StartLine, es[i].EndLine))

\* the Contents joined by newlines are the input lines joined by newlines
RoundTrip(es) == Join([i \in 1..Len(es) |-> es[i].Content]) = Join(file)

\* C27: content round-trip. Each merged entry's Content, from MergeSlice and
\* from Merge, is the physical lines StartLine..EndLine joined by a single
\* newline in input order, so that the Contents of all emitted entries joined
\* by newlines reproduce the input lines joined by newlines.
C27_ContentRoundTrip ==
  /\ ContentOfItsLines(Entries(outLog))
  /\ sliceCalled => (ContentOfItsLines(sliced) /\ RoundTrip(sliced))
  /\ mPc = "done" => RoundTrip(Entries(outLog))

\* the entries cover the lines from 1 on without a gap
FromFirstLine(es) ==
  \A i \in 1..Len(es) : es[i].StartLine = (IF i = 1 THEN 1 ELSE es[i - 1].EndLine + 1)

\* C27 as the code has it: every Content is its lines StartLine..EndLine joined
\* by newlines and the entries follow each other from line 1 without a gap;
\* the joined Contents reproduce the joined input for MergeSlice and for a
\* Merge whose input carries no read error. After a read error the entries
\* reproduce the lines before the entry that was being buffered.
C27_ContentRoundTripWithoutReadError ==
  /\ ContentOfItsLines(Entries(outLog))
  /\ FromFirstLine(Entries(outLog))
  /\ sliceCalled => (ContentOfItsLines(sliced) /\ FromFirstLine(sliced) /\ RoundTrip(sliced))
  /\ MergeDoneOk => RoundTrip(Entries(outLog))

\* MaxLines lines, an empty one among them, merged into fewer entries with one
\* of several lines, by Merge and by MergeSlice
C27_Witness ==
  /\ MergeDoneOk
  /\ sliceCalled
  /\ Len(file) = MaxLines
  /\ \E n \in 1..Len(file) : file[n] = <<>>
  /\ \E i \in 1..Len(sliced) : sliced[i].StartLine < sliced[i].EndLine
  /\ \E i \in 1..Len(Entries(outLog)) :
       Entries(outLog)[i].StartLine < Entries(outLog)[i].EndLine
  /\ Len(Entries(outLog)) >= 2

(***************************************************************************)
(* Termination of the goroutines                                           *)
(*                                                                         *)
(* The Go scheduler runs every goroutine that can take a step: weak        *)
(* fairness of each goroutine's steps. SpecReadFair asks nothing of the    *)
(* receivers, which may stop receiving at any moment.                      *)
(***************************************************************************)
\* the reader with the merger as its receiver, the detector finding no timestamp
InitReadFair == InitRead /\ detector.timestamped = {}

NextReadFair == Ingest \/ Cancel \/ Merge

SpecReadFair == InitReadFair /\ [][NextReadFair]_vars /\ WF_vars(Ingest)

\* the steps of the reader while ctx.Done() never fires
IngestUncancelled == ReaderScan \/ ReaderSend \/ ReaderSendErr

NextPipeline == IngestUncancelled \/ Merge \/ collectLines

\* the pipeline of runIngest up to the return of collectLines, never cancelled
SpecPipelineFair ==
  /\ InitRead
  /\ [][NextPipeline]_vars
  /\ WF_vars(IngestUncancelled)
  /\ WF_vars(Merge)
  /\ WF_vars(collectLines)

(***************************************************************************)
(* Properties of termination                                               *)
(***************************************************************************)
ReaderReturned == rPc = "done" /\ chClosed

\* C28 (checked under SpecReadFair): the reader terminates after
\* cancellation. Once the context is cancelled the reader goroutine eventually
\* returns and closes its channel, also when the channel is full and nobody is
\* receiving and when a read or close error is waiting to be sent.
C28_ReaderTerminatesAfterCancel == ctxDone ~> ReaderReturned

\* the reader returned under a cancelled context with its channel full, some
\* lines unread and an error it could not send
C28_Witness ==
  /\ ctxDone
  /\ ReaderReturned
  /\ Len(ch) = ChanCap
  /\ Len(chLog) < Len(file)
  /\ fileErr # NoErr
  /\ \A i \in 1..Len(chLog) : chLog[i].res.Err = NoErr

\* C29 (checked under SpecPipelineFair): pipeline termination without
\* deadlock. For every finite input and no cancellation the reader and the
\* merger both terminate, both channels are closed and collectLines returns,
\* also when the input has more lines than a channel holds or ends in a read
\* error.
C29_PipelineTerminates ==
  <>[](rPc = "done" /\ chClosed /\ mPc = "done" /\ outClosed /\ cPc = "returned")

\* a finished pipeline over more lines than a channel holds, the input ending
\* in a read error
C29_Witness ==
  /\ rPc = "done" /\ chClosed /\ mPc = "done" /\ outClosed /\ cPc = "returned"
  /\ Len(file) > ChanCap
  /\ Len(chLog) > ChanCap
  /\ scanFails
  /\ collectErr # NoErr

(***************************************************************************)
(* Consistency of the two tables (checked under SpecIngest)                *)
(***************************************************************************)
\* the pattern ids the labeler was asked about
LabelInputIDs ==
  UNION { { labelCalls[c][i].PatternUUIDString : i \in 1..Len(labelCalls[c]) } :
            c \in 1..Len(labelCalls) }

\* the pattern ids the labeler answered about without having been asked
UnaskedIDs ==
  { labels[k].PatternUUIDString : k \in 1..Len(labels) } \ LabelInputIDs

\* C30: label consistency. After a successful ingest run into an empty store
\* every stored entry with non-empty labels has labels.pattern equal to the
\* semantic_id column of the patterns row whose pattern_id equals
\* labels.pattern_id; a label the labeler returned for a pattern id that was
\* not among its inputs is never written to a pattern row or to an entry,
\* batched or stored.
C30_LabelConsistency ==
  /\ oPc = "done" =>
       \A row \in StoredRows :
         row.labels # {} =>
           \E id \in DOMAIN dbPatterns :
             /\ LabelValues(row, "pattern_id") = { id }
             /\ LabelValues(row, "pattern") = { dbPatterns[id].semantic_id }
  /\ \A id \in UnaskedIDs :
       /\ id \notin DOMAIN dbPatterns
       /\ \A row \in StoredRows : id \notin LabelValues(row, "pattern_id")
       /\ \A k \in 1..Len(batch) :
            id \notin { m[2] : m \in marshalLabels(batch[k].Labels) }

\* a finished run that stored a labelled entry, the labeler having also
\* answered for a template of count 1, whose entry is stored without labels
C30_Witness ==
  /\ oPc = "done"
  /\ \E row \in StoredRows : row.labels # {}
  /\ \E k \in 1..Len(FullTemplates) :
       /\ FullTemplates[k].Count = 1
       /\ FullTemplates[k].ID \in UnaskedIDs
       /\ \E row \in StoredRows :
            /\ MatchTemplate(row.raw, FullTemplates).ok
            /\ MatchTemplate(row.raw, FullTemplates).t.ID = FullTemplates[k].ID
            /\ row.labels = {}

==========================================================================
